---------------------------- MODULE Spec2Model ----------------------------
(***************************************************************************)
(* The bytecode compiler and the stack virtual machine of                  *)
(* monke-lang-interpreter, as a state machine: a source program is         *)
(* compiled (Compiler::compile), the ByteCode is handed to Vm::new, and    *)
(* Vm::run dispatches one instruction per step.  A ByteCode may also be    *)
(* built by hand (its fields are public) and handed to Vm::new directly.   *)
(***************************************************************************)
EXTENDS Integers, Sequences, FiniteSets, TLC

VARIABLES
    build,          \* "debug" (overflow checks on) or "release" (wrapping)
    origin,         \* "source": program is compiled; "raw": byte_code is given
    program,        \* the parsed Program::Statements handed to compile
    compiler,       \* the Compiler: instructions, constants, last/prev
    compile_result, \* what Compiler::compile returned
    byte_code,      \* the ByteCode handed to Vm::new
    instructions,   \* Vm.instructions
    constants,      \* Vm.constants
    stack,          \* Vm.stack: the slots written so far; the others are Null
    sp,             \* Vm.sp
    ip,             \* the local ip of Vm::run
    run_result,     \* what Vm::run returned
    pc,             \* "compile", "vm_new", "run", "done"
    parser,         \* the Parser: lexer, cur_token, peek_token
    parse_result    \* what Parser::parse_program returned

vars == <<build, origin, program, compiler, compile_result, byte_code,
          instructions, constants, stack, sp, ip, run_result, pc, parser,
          parse_result>>

vm_vars == <<instructions, constants, stack, sp, ip, run_result>>

-----------------------------------------------------------------------------
(* Bounds of the model.                                                    *)

\* Width in bits of the model's Integer values; the source's i64 scaled down.
I64_BITS == 8
\* Width in bits of the model's usize (sp, ip); the source's usize scaled down.
USIZE_BITS == 12
\* Largest number of AST nodes of a source program.
MaxNodes == 3
\* Largest number of instructions of a hand-built ByteCode.
MaxRawInstrs == 2

-----------------------------------------------------------------------------
(* Results: InterpreterResult<T> = Result<T, String>, and a panic.         *)

Ok == [tag |-> "Ok", msg |-> ""]
Err(m) == [tag |-> "Err", msg |-> m]
Panic(m) == [tag |-> "panic", msg |-> m]
NotReturned == [tag |-> "none", msg |-> ""]

-----------------------------------------------------------------------------
(* Values (evaluator/types.rs).                                            *)

Integer(n) == [kind |-> "Integer", value |-> n]
\* The payload of a Boolean has a field name of its own: TLC compares records
\* field by field, and cannot compare an integer with a boolean.
Boolean(b) == [kind |-> "Boolean", bvalue |-> b]
Null == [kind |-> "Null"]

I64_MAX == 2 ^ (I64_BITS - 1) - 1
I64_MIN == -(2 ^ (I64_BITS - 1))
USIZE_MAX == 2 ^ USIZE_BITS - 1

\* Two's-complement wrap of a mathematical integer into the Integer width.
WrapI64(x) == ((x - I64_MIN) % (2 ^ I64_BITS)) + I64_MIN

InI64(x) == I64_MIN <= x /\ x <= I64_MAX

Abs(x) == IF x < 0 THEN -x ELSE x

\* Rust's integer division truncates toward zero.
TruncDiv(l, r) ==
    IF (l < 0) = (r < 0) THEN Abs(l) \div Abs(r) ELSE -(Abs(l) \div Abs(r))

\* An arithmetic result: overflow panics in a debug build and wraps in a
\* release build.
Overflowing(x) ==
    IF InI64(x) THEN [res |-> Ok, value |-> x]
    ELSE IF build = "debug"
         THEN [res |-> Panic("attempt to compute with overflow"), value |-> 0]
         ELSE [res |-> Ok, value |-> WrapI64(x)]

i64_add(l, r) == Overflowing(l + r)
i64_sub(l, r) == Overflowing(l - r)
i64_mul(l, r) == Overflowing(l * r)
i64_neg(n) == Overflowing(-n)

\* Division by zero, and MIN / -1, panic in every build.
i64_div(l, r) ==
    IF r = 0
    THEN [res |-> Panic("attempt to divide by zero"), value |-> 0]
    ELSE IF l = I64_MIN /\ r = -1
         THEN [res |-> Panic("attempt to divide with overflow"), value |-> 0]
         ELSE [res |-> Ok, value |-> TruncDiv(l, r)]

-----------------------------------------------------------------------------
(* Instruction encoding (code/code.rs).                                    *)

OpConstant == 0
OpPop == 1
OpAdd == 2
OpSub == 3
OpMul == 4
OpDiv == 5
OpTrue == 6
OpFalse == 7
OpEqual == 8
OpNotEqual == 9
OpGreaterThan == 10
OpMinus == 11
OpBang == 12
OpJumpNotTruthy == 13
OpJump == 14

OpCodes == OpConstant .. OpJump

\* The operand widths of an opcode, in bytes.
OperandWidths(op) ==
    IF op \in {OpConstant, OpJumpNotTruthy, OpJump} THEN <<2>> ELSE <<>>

\* u8::try_into::<OpCodeType>: fails on a byte outside the defined set.
TryIntoOpCode(byte) ==
    IF byte \in OpCodes THEN [res |-> Ok, op |-> byte]
    ELSE [res |-> Err("unknown opcode"), op |-> byte]

\* make writing the operand low byte first.
make_LittleEndian(op, operands) ==
    IF OperandWidths(op) = <<2>>
    THEN <<op, operands[1] % 256, (operands[1] % 65536) \div 256>>
    ELSE <<op>>

\* make(op, operands): the opcode byte, then each operand big-endian in its
\* declared width (the operand is cast to u16).
make(op, operands) ==
    IF OperandWidths(op) = <<2>>
    THEN <<op, (operands[1] % 65536) \div 256, operands[1] % 256>>
    ELSE <<op>>

\* read_u16(bytes): the first two bytes, big-endian.
read_u16(bytes) == bytes[1] * 256 + bytes[2]

\* The read of an operand from fewer than two bytes: an error.
OperandCutOff(bytes) == Len(bytes) < 2

\* The name of an opcode in the disassembly.
OpNames ==
    <<"OpConstant", "OpPop", "OpAdd", "OpSub", "OpMul", "OpDiv", "OpTrue",
      "OpFalse", "OpEqual", "OpNotEqual", "OpGreaterThan", "OpMinus", "OpBang",
      "OpJumpNotTruthy", "OpJump">>
OpName(op) == OpNames[op + 1]

\* The sum of the operand widths of an opcode.
WidthsSum(op) == IF OperandWidths(op) = <<2>> THEN 2 ELSE 0

\* The operands of an opcode decoded from the bytes after it.
read_operands(op, bytes) ==
    IF OperandWidths(op) = <<2>> THEN <<read_u16(bytes)>> ELSE <<>>

\* The decimal digits of n, and n written zero-padded to 4 digits.
RECURSIVE Digits(_)
Digits(n) == IF n < 10 THEN <<n>> ELSE Append(Digits(n \div 10), n % 10)
Pad4_NoPadding(n) == Digits(n)
Pad4(n) ==
    LET d == Digits(n)
    IN  IF Len(d) >= 4 THEN d ELSE [i \in 1 .. 4 - Len(d) |-> 0] \o d

\* Display of Instructions from byte offset pos on: one line per
\* instruction, "NNNN OpName operands", advancing by 1 + the operand widths.
\* Defined on streams made of whole instructions.
RECURSIVE to_string_from(_, _)
to_string_from(ins, pos) ==
    IF pos >= Len(ins) THEN <<>>
    ELSE LET op == ins[pos + 1]
             line == [offset |-> Pad4(pos),
                      name |-> OpName(op),
                      operands |-> read_operands(op,
                                      SubSeq(ins, pos + 2, Len(ins)))]
         IN  <<line>> \o to_string_from(ins, pos + 1 + WidthsSum(op))
to_string(ins) == to_string_from(ins, 0)

\* Zero-based access to a Vec or slice: get(i) is None outside of it.
InRange(seq, i) == 0 <= i /\ i < Len(seq)
At(seq, i) == seq[i + 1]
\* seq[from..]
SliceFrom(seq, from) == SubSeq(seq, from + 1, Len(seq))
\* seq[..to]
SliceTo(seq, to) == SubSeq(seq, 1, to)

-----------------------------------------------------------------------------
(* The virtual machine (vm/vm.rs).                                         *)

STACK_SIZE == 2048

\* stack.get(i): the slot, Null while nothing has been written to it.
StackGet(stk, i) == IF i < Len(stk) THEN stk[i + 1] ELSE Null

\* stack[i] = object, for i < STACK_SIZE.  A slot is written only at sp,
\* which never exceeds the number of slots written so far.
StackSet(stk, i, object) ==
    IF i < Len(stk) THEN [stk EXCEPT ![i + 1] = object]
    ELSE Append(stk, object)

\* Vm::push on s = [stack, sp].
push(s, object) ==
    IF s.sp >= STACK_SIZE
    THEN [s |-> s, res |-> Err("stack overflow")]
    ELSE [s |-> [stack |-> StackSet(s.stack, s.sp, object), sp |-> s.sp + 1],
          res |-> Ok]

\* Vm::pop that clears the slot it pops.
pop_ClearsSlot(s) ==
    IF s.sp = 0 /\ build = "debug"
    THEN [s |-> s, res |-> Panic("attempt to subtract with overflow"),
          val |-> Null]
    ELSE LET sp1 == (s.sp - 1) % (2 ^ USIZE_BITS)
         IN  IF sp1 < STACK_SIZE
             THEN [s |-> [stack |-> StackSet(s.stack, sp1, Null), sp |-> sp1],
                   res |-> Ok, val |-> StackGet(s.stack, sp1)]
             ELSE [s |-> [stack |-> s.stack, sp |-> sp1],
                   res |-> Err("couldn't pop from the stack, index is out of bounds"),
                   val |-> Null]

\* Vm::pop on s = [stack, sp]: sp -= 1 comes first; at sp = 0 it panics in
\* a debug build and wraps in a release build, where stack.get then fails.
pop(s) ==
    IF s.sp = 0 /\ build = "debug"
    THEN [s |-> s, res |-> Panic("attempt to subtract with overflow"),
          val |-> Null]
    ELSE LET sp1 == (s.sp - 1) % (2 ^ USIZE_BITS)
             s1 == [stack |-> s.stack, sp |-> sp1]
         IN  IF sp1 < STACK_SIZE
             THEN [s |-> s1, res |-> Ok, val |-> StackGet(s.stack, sp1)]
             ELSE [s |-> s1,
                   res |-> Err("couldn't pop from the stack, index is out of bounds"),
                   val |-> Null]

\* The integer arm of execute_binary_operation.
BinaryOp(op, l, r) ==
    CASE op = OpAdd -> i64_add(l, r)
      [] op = OpSub -> i64_sub(l, r)
      [] op = OpMul -> i64_mul(l, r)
      [] op = OpDiv -> i64_div(l, r)
      [] OTHER -> [res |-> Err("couldn't execute binary operation, wrong operation type"),
                   value |-> 0]

\* execute_binary_operation with the operands taken in the wrong order: the
\* value popped first as the left one.
execute_binary_operation_Swapped(s, op) ==
    LET p1 == pop(s) IN
    IF p1.res.tag # "Ok" THEN [s |-> p1.s, res |-> p1.res]
    ELSE LET p2 == pop(p1.s) IN
    IF p2.res.tag # "Ok" THEN [s |-> p2.s, res |-> p2.res]
    ELSE LET left == p1.val
             right == p2.val
         IN  IF left.kind = "Integer" /\ right.kind = "Integer"
             THEN LET v == BinaryOp(op, left.value, right.value)
                  IN  IF v.res.tag # "Ok" THEN [s |-> p2.s, res |-> v.res]
                      ELSE push(p2.s, Integer(v.value))
             ELSE [s |-> p2.s, res |-> Err("couldn't execute binary operation")]

\* Vm::execute_binary_operation.
execute_binary_operation(s, op) ==
    LET p1 == pop(s) IN
    IF p1.res.tag # "Ok" THEN [s |-> p1.s, res |-> p1.res]
    ELSE LET p2 == pop(p1.s) IN
    IF p2.res.tag # "Ok" THEN [s |-> p2.s, res |-> p2.res]
    ELSE LET right == p1.val
             left == p2.val
         IN  IF left.kind = "Integer" /\ right.kind = "Integer"
             THEN LET v == BinaryOp(op, left.value, right.value)
                  IN  IF v.res.tag # "Ok" THEN [s |-> p2.s, res |-> v.res]
                      ELSE push(p2.s, Integer(v.value))
             ELSE [s |-> p2.s, res |-> Err("couldn't execute binary operation")]

\* CompareOp with GreaterThan taken as greater-or-equal.
CompareOp_GreaterOrEqual(op, l, r) ==
    CASE op = OpEqual -> [res |-> Ok, value |-> (l = r)]
      [] op = OpNotEqual -> [res |-> Ok, value |-> (l # r)]
      [] op = OpGreaterThan -> [res |-> Ok, value |-> l >= r]
      [] OTHER -> [res |-> Err("couldn't compare two objects, got wrong operator"),
                   value |-> FALSE]

\* The comparison of two integers or of two booleans (false < true).
CompareOp(op, l, r) ==
    CASE op = OpEqual -> [res |-> Ok, value |-> (l = r)]
      [] op = OpNotEqual -> [res |-> Ok, value |-> (l # r)]
      [] op = OpGreaterThan -> [res |-> Ok, value |-> l > r]
      [] OTHER -> [res |-> Err("couldn't compare two objects, got wrong operator"),
                   value |-> FALSE]

BoolRank(b) == IF b THEN 1 ELSE 0

\* execute_comparison with a fallback for operands of two kinds: it pushes
\* Boolean(false) where the source returns the error.
execute_comparison_MixedIsFalse(s, op) ==
    LET p1 == pop(s) IN
    IF p1.res.tag # "Ok" THEN [s |-> p1.s, res |-> p1.res]
    ELSE LET p2 == pop(p1.s) IN
    IF p2.res.tag # "Ok" THEN [s |-> p2.s, res |-> p2.res]
    ELSE LET right == p1.val
             left == p2.val
         IN  IF left.kind = "Integer" /\ right.kind = "Integer"
             THEN LET v == CompareOp(op, left.value, right.value)
                  IN  IF v.res.tag # "Ok" THEN [s |-> p2.s, res |-> v.res]
                      ELSE push(p2.s, Boolean(v.value))
             ELSE IF left.kind = "Boolean" /\ right.kind = "Boolean"
             THEN LET v == CompareOp(op, BoolRank(left.bvalue), BoolRank(right.bvalue))
                  IN  IF v.res.tag # "Ok" THEN [s |-> p2.s, res |-> v.res]
                      ELSE push(p2.s, Boolean(v.value))
             ELSE push(p2.s, Boolean(FALSE))

\* Vm::execute_comparison.
execute_comparison(s, op) ==
    LET p1 == pop(s) IN
    IF p1.res.tag # "Ok" THEN [s |-> p1.s, res |-> p1.res]
    ELSE LET p2 == pop(p1.s) IN
    IF p2.res.tag # "Ok" THEN [s |-> p2.s, res |-> p2.res]
    ELSE LET right == p1.val
             left == p2.val
         IN  IF left.kind = "Integer" /\ right.kind = "Integer"
             THEN LET v == CompareOp(op, left.value, right.value)
                  IN  IF v.res.tag # "Ok" THEN [s |-> p2.s, res |-> v.res]
                      ELSE push(p2.s, Boolean(v.value))
             ELSE IF left.kind = "Boolean" /\ right.kind = "Boolean"
             THEN LET v == CompareOp(op, BoolRank(left.bvalue), BoolRank(right.bvalue))
                  IN  IF v.res.tag # "Ok" THEN [s |-> p2.s, res |-> v.res]
                      ELSE push(p2.s, Boolean(v.value))
             ELSE [s |-> p2.s, res |-> Err("couldn't compare two objects")]

\* The Bang arm of run.
execute_bang(s) ==
    LET p == pop(s) IN
    IF p.res.tag # "Ok" THEN [s |-> p.s, res |-> p.res]
    ELSE IF p.val.kind = "Boolean"
         THEN push(p.s, Boolean(~p.val.bvalue))
         ELSE push(p.s, Boolean(FALSE))

\* The Minus arm with the fallback of the Bang arm: a value that is no
\* Integer gets Boolean(false) pushed instead of the error.
execute_minus_NoTypeError(s) ==
    LET p == pop(s) IN
    IF p.res.tag # "Ok" THEN [s |-> p.s, res |-> p.res]
    ELSE IF p.val.kind = "Integer"
         THEN LET v == i64_neg(p.val.value)
              IN  IF v.res.tag # "Ok" THEN [s |-> p.s, res |-> v.res]
                  ELSE push(p.s, Integer(v.value))
         ELSE push(p.s, Boolean(FALSE))

\* The Minus arm of run.
execute_minus(s) ==
    LET p == pop(s) IN
    IF p.res.tag # "Ok" THEN [s |-> p.s, res |-> p.res]
    ELSE IF p.val.kind = "Integer"
         THEN LET v == i64_neg(p.val.value)
              IN  IF v.res.tag # "Ok" THEN [s |-> p.s, res |-> v.res]
                  ELSE push(p.s, Integer(v.value))
         ELSE [s |-> p.s, res |-> Err("unsupported type for negation")]

\* The Constant arm with an index outside the pool read as Null.
execute_constant_NullOutside(s, const_idx) ==
    IF ~InRange(constants, const_idx) THEN push(s, Null)
    ELSE push(s, At(constants, const_idx))

\* The Constant arm of run, after the operand is read.
execute_constant(s, const_idx) ==
    IF ~InRange(constants, const_idx)
    THEN [s |-> s, res |-> Err("couldn't parse byte code")]
    ELSE push(s, At(constants, const_idx))


-----------------------------------------------------------------------------
(* The abstract syntax tree handed to the compiler (parser/ast.rs).        *)

IntegerLiteral(v) == [node |-> "IntegerLiteral", value |-> v]
BooleanLiteral(b) == [node |-> "Boolean", bvalue |-> b]
Prefix(token, right) == [node |-> "Prefix", token |-> token, right |-> right]
Infix(token, left, right) ==
    [node |-> "Infix", token |-> token, left |-> left, right |-> right]
\* consequence and alternative are blocks; NoAlternative is Option::None.
If(condition, consequence, alternative) ==
    [node |-> "If", condition |-> condition, consequence |-> consequence,
     alternative |-> alternative]
NoAlternative == [node |-> "None"]
ExpressionStatement(e) == [node |-> "Expression", expression |-> e]
Block(statements) == [node |-> "Block", statements |-> statements]
\* The statements and expressions compile has no code for.
LetStatement(name, value) == [node |-> "Let", name |-> name, value |-> value]
ReturnStatement(value) == [node |-> "Return", return_value |-> value]
Identifier(name) == [node |-> "Identifier", name |-> name]
StringLiteral(str) == [node |-> "StringLiteral", str |-> str]
FunctionLiteral(parameters, body) ==
    [node |-> "FunctionLiteral", parameters |-> parameters, body |-> body]
Call(function, arguments) ==
    [node |-> "Call", function |-> function, arguments |-> arguments]
ArrayLiteral(elements) == [node |-> "ArrayLiteral", elements |-> elements]
IndexExpression(left, index) ==
    [node |-> "IndexExpression", left |-> left, index |-> index]
HashLiteral(pairs) == [node |-> "HashLiteral", pairs |-> pairs]

-----------------------------------------------------------------------------
(* Tokens (lexer/token.rs) and the parser's fields.                        *)

\* Token: a variant of the token enum; literal is the String of Ident and
\* Int and empty for the others.
Token(type, literal) == [type |-> type, literal |-> literal]
\* Option<Token>::None.
NoToken == Token("None", "")

\* No parser has been created.
NoParser ==
    [lexer |-> [input |-> <<>>, position |-> 0], cur_token |-> NoToken,
     peek_token |-> NoToken]

-----------------------------------------------------------------------------
(* The compiler (compiler/compiler.rs).                                    *)

KEKL_VALUE == 9999

\* Option<EmittedInstruction>.
NoInstruction == [is_some |-> FALSE]
EmittedInstruction(op, pos) == [is_some |-> TRUE, op_code |-> op, position |-> pos]

\* Compiler::new.
NewCompiler ==
    [instructions |-> <<>>, constants |-> <<>>,
     last_instruction |-> NoInstruction, prev_instruction |-> NoInstruction]

\* Compiler::byte_code.
ByteCodeOf(c) == [instructions |-> c.instructions, constants |-> c.constants]

\* add_constant that interns: an equal value already in the pool is reused.
add_constant_Interned(c, obj) ==
    IF \E i \in 1 .. Len(c.constants) : c.constants[i] = obj
    THEN [c |-> c,
          idx |-> (CHOOSE i \in 1 .. Len(c.constants) : c.constants[i] = obj) - 1]
    ELSE [c |-> [c EXCEPT !.constants = Append(c.constants, obj)],
          idx |-> Len(c.constants)]

\* Compiler::add_constant: the new compiler and the index of the constant.
add_constant(c, obj) ==
    [c |-> [c EXCEPT !.constants = Append(c.constants, obj)],
     idx |-> Len(c.constants)]

\* Compiler::add_instructions: the new compiler and the position written.
add_instructions(c, ins) ==
    [c |-> [c EXCEPT !.instructions = c.instructions \o ins],
     pos |-> Len(c.instructions)]

\* set_last_instruction that does not move last_instruction to prev_instruction.
set_last_instruction_KeepPrev(c, op, pos) ==
    [c EXCEPT !.last_instruction = EmittedInstruction(op, pos)]

\* Compiler::set_last_instruction.
set_last_instruction(c, op, pos) ==
    [c EXCEPT !.prev_instruction = c.last_instruction,
              !.last_instruction = EmittedInstruction(op, pos)]

\* Compiler::emit: the new compiler and the position of the instruction.
emit(c, op, operands) ==
    LET a == add_instructions(c, make(op, operands))
    IN  [c |-> set_last_instruction(a.c, op, a.pos), pos |-> a.pos]

\* Compiler::last_instruction_is_pop.
last_instruction_is_pop(c) ==
    c.last_instruction.is_some /\ c.last_instruction.op_code = OpPop

\* remove_last_pop that leaves last_instruction as it was.
remove_last_pop_KeepLast(c) ==
    IF ~c.last_instruction.is_some
    THEN [c |-> c, res |-> Err("couldn't compile, failed to remove last pop")]
    ELSE IF c.last_instruction.position > Len(c.instructions)
    THEN [c |-> c, res |-> Err("couldn't compile, failed to remove last pop")]
    ELSE [c |-> [c EXCEPT
                   !.instructions = SliceTo(c.instructions, c.last_instruction.position)],
          res |-> Ok]

\* Compiler::remove_last_pop.
remove_last_pop(c) ==
    IF ~c.last_instruction.is_some
    THEN [c |-> c, res |-> Err("couldn't compile, failed to remove last pop")]
    ELSE IF c.last_instruction.position > Len(c.instructions)
    THEN [c |-> c, res |-> Err("couldn't compile, failed to remove last pop")]
    ELSE [c |-> [c EXCEPT
                   !.instructions = SliceTo(c.instructions, c.last_instruction.position),
                   !.last_instruction = c.prev_instruction],
          res |-> Ok]

\* Compiler::replace_instructions: the bytes are written one by one, and
\* the first position outside the stream ends the loop with the error.
replace_instructions(c, pos, new_instructions) ==
    LET fit == IF Len(c.instructions) - pos < 0 THEN 0
               ELSE IF Len(c.instructions) - pos < Len(new_instructions)
                    THEN Len(c.instructions) - pos
                    ELSE Len(new_instructions)
        written == [i \in 1 .. Len(c.instructions) |->
                      IF pos < i /\ i <= pos + fit
                      THEN new_instructions[i - pos]
                      ELSE c.instructions[i]]
    IN  [c |-> [c EXCEPT !.instructions = written],
         res |-> IF fit = Len(new_instructions) THEN Ok
                 ELSE Err("couldn't compile, failed to replace intructions")]

\* change_operand that leaves the placeholder operand in place.
change_operand_Skip(c, pos, operand) == [c |-> c, res |-> Ok]

\* Compiler::change_operand.
change_operand(c, pos, operand) ==
    IF ~InRange(c.instructions, pos)
    THEN [c |-> c, res |-> Err("couldn't compile, failed change operand")]
    ELSE IF TryIntoOpCode(At(c.instructions, pos)).res.tag # "Ok"
    THEN [c |-> c, res |-> Err("couldn't compile, failed change operand")]
    ELSE replace_instructions(c, pos, make(At(c.instructions, pos), <<operand>>))

\* The opcode of an infix token other than Lt; 255 stands for `_ => todo!()`.
InfixOpCode(token) ==
    CASE token = "+" -> OpAdd
      [] token = "-" -> OpSub
      [] token = "*" -> OpMul
      [] token = "/" -> OpDiv
      [] token = ">" -> OpGreaterThan
      [] token = "==" -> OpEqual
      [] token = "!=" -> OpNotEqual
      [] OTHER -> 255

\* An if arm compiled with its last Pop kept.
elide_last_pop_Never(c) == [c |-> c, res |-> Ok]

\* `if self.last_instruction_is_pop() { self.remove_last_pop()?; }`
elide_last_pop(c) ==
    IF last_instruction_is_pop(c) THEN remove_last_pop(c)
    ELSE [c |-> c, res |-> Ok]

\* `x?; rest`: the error (or panic) of r ends the call, else rest goes on.
Then(r, rest) == IF r.res.tag # "Ok" THEN [c |-> r.c, res |-> r.res] ELSE rest

RECURSIVE compile(_, _)
RECURSIVE compile_statements(_, _)
RECURSIVE compile_if(_, _)
RECURSIVE compile_alternative(_, _, _)
RECURSIVE compile_expression_statement(_, _)
RECURSIVE compile_prefix(_, _)
RECURSIVE compile_infix(_, _)

\* Statement::Expression without the Pop after the expression.
compile_expression_statement_NoPop(c, node) == compile(c, node.expression)

\* Statement::Expression with the Pop emitted twice.
compile_expression_statement_TwoPops(c, node) ==
    LET r == compile(c, node.expression)
    IN  Then(r, [c |-> emit(emit(r.c, OpPop, <<>>).c, OpPop, <<>>).c, res |-> Ok])

\* Statement::Expression: the expression, then Pop.
compile_expression_statement(c, node) ==
    LET r == compile(c, node.expression)
    IN  Then(r, [c |-> emit(r.c, OpPop, <<>>).c, res |-> Ok])

\* Program::Statements and Statement::Block: each statement in order.
compile_statements(c, statements) ==
    IF statements = <<>> THEN [c |-> c, res |-> Ok]
    ELSE LET r == compile(c, Head(statements))
         IN  Then(r, compile_statements(r.c, Tail(statements)))

\* The else handling with the JumpNotTruthy patched before the Jump is
\* emitted: its operand is the offset of the Jump, not of the alternative.
compile_alternative_PatchBeforeJump(c, node, jump_not_truthy_pos) ==
    IF node.alternative.node = "None"
    THEN change_operand(c, jump_not_truthy_pos, Len(c.instructions))
    ELSE LET p1 == change_operand(c, jump_not_truthy_pos, Len(c.instructions))
             j == emit(p1.c, OpJump, <<KEKL_VALUE>>)
             alt == compile(j.c, node.alternative)
             el == elide_last_pop(alt.c)
         IN  Then(p1, Then(alt, Then(el,
                 change_operand(el.c, j.pos, Len(el.c.instructions)))))

\* Expression::If, after the consequence is compiled into c.
compile_alternative(c, node, jump_not_truthy_pos) ==
    IF node.alternative.node = "None"
    THEN change_operand(c, jump_not_truthy_pos, Len(c.instructions))
    ELSE LET j == emit(c, OpJump, <<KEKL_VALUE>>)
             p1 == change_operand(j.c, jump_not_truthy_pos, Len(j.c.instructions))
             alt == compile(p1.c, node.alternative)
             el == elide_last_pop(alt.c)
         IN  Then(p1, Then(alt, Then(el,
                 change_operand(el.c, j.pos, Len(el.c.instructions)))))

\* Expression::If.
compile_if(c, node) ==
    LET cond == compile(c, node.condition)
        jnt == emit(cond.c, OpJumpNotTruthy, <<KEKL_VALUE>>)
        cons == compile(jnt.c, node.consequence)
        el == elide_last_pop(cons.c)
    IN  Then(cond, Then(cons, Then(el, compile_alternative(el.c, node, jnt.pos))))

\* Expression::IntegerLiteral: the constant is added, then Constant emitted.
compile_integer_literal(c, node) ==
    LET a == add_constant(c, Integer(node.value))
    IN  [c |-> emit(a.c, OpConstant, <<a.idx>>).c, res |-> Ok]

\* Expression::Prefix with Minus as the fallback for every token but Bang.
compile_prefix_MinusFallback(c, node) ==
    LET r == compile(c, node.right)
    IN  Then(r,
          IF node.token = "!" THEN [c |-> emit(r.c, OpBang, <<>>).c, res |-> Ok]
          ELSE [c |-> emit(r.c, OpMinus, <<>>).c, res |-> Ok])

\* Expression::Prefix: the operand, then Bang or Minus.
compile_prefix(c, node) ==
    LET r == compile(c, node.right)
    IN  Then(r,
          IF node.token = "!" THEN [c |-> emit(r.c, OpBang, <<>>).c, res |-> Ok]
          ELSE IF node.token = "-"
               THEN [c |-> emit(r.c, OpMinus, <<>>).c, res |-> Ok]
               ELSE [c |-> r.c,
                     res |-> Err("couldn't compile prefix expression, bang or minus operators expected")])

\* Expression::Infix with Lt compiled like Gt: the left operand first.
compile_infix_LtLeftFirst(c, node) ==
    LET l == compile(c, node.left)
        r == compile(l.c, node.right)
    IN  Then(l, Then(r,
          IF node.token = "<"
          THEN [c |-> emit(r.c, OpGreaterThan, <<>>).c, res |-> Ok]
          ELSE IF InfixOpCode(node.token) \in OpCodes
          THEN [c |-> emit(r.c, InfixOpCode(node.token), <<>>).c, res |-> Ok]
          ELSE [c |-> r.c, res |-> Panic("not yet implemented")]))

\* Expression::Infix: for Lt the right operand first and GreaterThan; else
\* the left operand first and the opcode of the token.
compile_infix(c, node) ==
    IF node.token = "<"
    THEN LET r == compile(c, node.right)
             l == compile(r.c, node.left)
         IN  Then(r, Then(l, [c |-> emit(l.c, OpGreaterThan, <<>>).c, res |-> Ok]))
    ELSE LET l == compile(c, node.left)
             r == compile(l.c, node.right)
         IN  Then(l, Then(r,
               IF InfixOpCode(node.token) \in OpCodes
               THEN [c |-> emit(r.c, InfixOpCode(node.token), <<>>).c, res |-> Ok]
               ELSE [c |-> r.c, res |-> Panic("not yet implemented")]))

\* Compiler::compile, on a Statement or an Expression node.
compile(c, node) ==
    CASE node.node = "Expression" -> compile_expression_statement(c, node)
      [] node.node = "Block" -> compile_statements(c, node.statements)
      [] node.node = "IntegerLiteral" -> compile_integer_literal(c, node)
      [] node.node = "Prefix" -> compile_prefix(c, node)
      [] node.node = "Infix" -> compile_infix(c, node)
      [] node.node = "Boolean" ->
           IF node.bvalue THEN [c |-> emit(c, OpTrue, <<>>).c, res |-> Ok]
           ELSE [c |-> emit(c, OpFalse, <<>>).c, res |-> Ok]
      [] node.node = "If" -> compile_if(c, node)
      \* Let, Return, Identifier, StringLiteral, FunctionLiteral, Call,
      \* ArrayLiteral, IndexExpression, HashLiteral: todo!()
      [] OTHER -> [c |-> c, res |-> Panic("not yet implemented")]

-----------------------------------------------------------------------------
(* Vm::new and the dispatch loop of Vm::run, one action per match arm.     *)

\* Vm::new that does not take the constants of the byte code.
VmNew_EmptyPool ==
    /\ pc = "vm_new"
    /\ instructions' = byte_code.instructions
    /\ constants' = <<>>
    /\ stack' = <<>>
    /\ sp' = 0
    /\ ip' = 0
    /\ run_result' = NotReturned
    /\ pc' = "run"
    /\ UNCHANGED <<parser, parse_result, build, origin, program, compiler, compile_result, byte_code>>

\* Vm::new(byte_code).
VmNew ==
    /\ pc = "vm_new"
    /\ instructions' = byte_code.instructions
    /\ constants' = byte_code.constants
    /\ stack' = <<>>
    /\ sp' = 0
    /\ ip' = 0
    /\ run_result' = NotReturned
    /\ pc' = "run"
    /\ UNCHANGED <<parser, parse_result, build, origin, program, compiler, compile_result, byte_code>>

\* The opcode under ip, while the loop condition ip < len holds.
Dispatching(op) ==
    /\ pc = "run"
    /\ ip < Len(instructions)
    /\ TryIntoOpCode(At(instructions, ip)).res.tag = "Ok"
    /\ TryIntoOpCode(At(instructions, ip)).op = op

\* The end of an arm without the ip += 1 at the bottom of the loop.
Advance_NoIncrement(r, arm_ip) ==
    /\ stack' = r.s.stack
    /\ sp' = r.s.sp
    /\ IF r.res.tag = "Ok"
       THEN ip' = arm_ip /\ run_result' = run_result /\ pc' = pc
       ELSE ip' = arm_ip /\ run_result' = r.res /\ pc' = "done"
    /\ UNCHANGED <<parser, parse_result, build, origin, program, compiler, compile_result, byte_code,
                   instructions, constants>>

\* The end of an arm whose outcome is r = [s, res], with ip as the arm left
\* it: on Ok the bottom of the loop does ip += 1, otherwise `?` returns.
Advance(r, arm_ip) ==
    /\ stack' = r.s.stack
    /\ sp' = r.s.sp
    /\ IF r.res.tag = "Ok"
       THEN ip' = arm_ip + 1 /\ run_result' = run_result /\ pc' = pc
       ELSE ip' = arm_ip /\ run_result' = r.res /\ pc' = "done"
    /\ UNCHANGED <<parser, parse_result, build, origin, program, compiler, compile_result, byte_code,
                   instructions, constants>>

VmState == [stack |-> stack, sp |-> sp]

\* The byte under ip is no opcode: try_into()? returns the error.
RunBadOpcode ==
    /\ pc = "run"
    /\ ip < Len(instructions)
    /\ TryIntoOpCode(At(instructions, ip)).res.tag # "Ok"
    /\ Advance([s |-> VmState, res |-> TryIntoOpCode(At(instructions, ip)).res], ip)

\* OpCodeType::Constant.  The slice instructions[ip + 1..] exists whenever
\* ip < len; an operand cut off by the end of the stream is an error.
RunConstant ==
    /\ Dispatching(OpConstant)
    /\ LET operand == SliceFrom(instructions, ip + 1)
       IN  IF OperandCutOff(operand)
           THEN Advance([s |-> VmState, res |-> Err("couldn't parse byte code")], ip)
           ELSE Advance(execute_constant(VmState, read_u16(operand)), ip + 2)

\* Add, Sub, Mul, Div.
RunBinaryOperation ==
    \E op \in {OpAdd, OpSub, OpMul, OpDiv} :
        /\ Dispatching(op)
        /\ Advance(execute_binary_operation(VmState, op), ip)

\* OpCodeType::Pop.
RunPop ==
    /\ Dispatching(OpPop)
    /\ LET p == pop(VmState) IN Advance([s |-> p.s, res |-> p.res], ip)

\* OpCodeType::True.
RunTrue ==
    /\ Dispatching(OpTrue)
    /\ Advance(push(VmState, Boolean(TRUE)), ip)

\* OpCodeType::False.
RunFalse ==
    /\ Dispatching(OpFalse)
    /\ Advance(push(VmState, Boolean(FALSE)), ip)

\* GreaterThan, Equal, NotEqual.
RunComparison ==
    \E op \in {OpGreaterThan, OpEqual, OpNotEqual} :
        /\ Dispatching(op)
        /\ Advance(execute_comparison(VmState, op), ip)

\* OpCodeType::Bang.
RunBang ==
    /\ Dispatching(OpBang)
    /\ Advance(execute_bang(VmState), ip)

\* OpCodeType::Minus.
RunMinus ==
    /\ Dispatching(OpMinus)
    /\ Advance(execute_minus(VmState), ip)

\* `_ => todo!()`: every other opcode, that is JumpNotTruthy and Jump.
RunTodo ==
    \E op \in {OpJumpNotTruthy, OpJump} :
        /\ Dispatching(op)
        /\ Advance([s |-> VmState, res |-> Panic("not yet implemented")], ip)

\* The loop condition fails: run returns Ok(()).
RunReturnOk ==
    /\ pc = "run"
    /\ ~(ip < Len(instructions))
    /\ run_result' = Ok
    /\ pc' = "done"
    /\ UNCHANGED <<parser, parse_result, build, origin, program, compiler, compile_result, byte_code,
                   instructions, constants, stack, sp, ip>>

\* Vm::last_popped_stack_elem: stack.get(sp), cloned.
last_popped_stack_elem ==
    IF sp < STACK_SIZE
    THEN [res |-> Ok, val |-> StackGet(stack, sp)]
    ELSE [res |-> Err("couldn't pop from the stack, index is out of bounds"),
          val |-> Null]

\* Option<&Object>.
None == [tag |-> "Ok", is_some |-> FALSE, val |-> Null]
Some(object) == [tag |-> "Ok", is_some |-> TRUE, val |-> object]

\* Vm::stack_top: stack.get(sp - 1); at sp = 0 the subtraction panics in a
\* debug build and wraps in a release build, where get finds no slot.
stack_top ==
    IF sp = 0 /\ build = "debug"
    THEN [tag |-> "panic", is_some |-> FALSE, val |-> Null]
    ELSE LET i == (sp - 1) % (2 ^ USIZE_BITS)
         IN  IF i < STACK_SIZE THEN Some(StackGet(stack, i)) ELSE None

-----------------------------------------------------------------------------
(* The tree-walking evaluator (evaluator/evaluator.rs).                    *)

\* eval_prefix_expression.
eval_prefix_expression(token, right) ==
    IF token = "!"
    THEN IF right.kind = "Boolean" THEN [res |-> Ok, val |-> Boolean(~right.bvalue)]
         ELSE IF right.kind = "Null" THEN [res |-> Ok, val |-> Boolean(TRUE)]
         ELSE [res |-> Ok, val |-> Boolean(FALSE)]
    ELSE IF token = "-"
    THEN IF right.kind = "Integer"
         THEN LET v == i64_neg(right.value)
              IN  [res |-> v.res, val |-> Integer(v.value)]
         ELSE [res |-> Err("unable to evaluate prefix expression, Integer number must follow Minus token"),
               val |-> Null]
    ELSE [res |-> Err("unable to evaluate prefix expression, ! or - tokens expected"),
          val |-> Null]

\* The integer arm of eval_infix_expression.
eval_integer_infix(token, l, r) ==
    CASE token = "+" -> LET v == i64_add(l, r) IN [res |-> v.res, val |-> Integer(v.value)]
      [] token = "-" -> LET v == i64_sub(l, r) IN [res |-> v.res, val |-> Integer(v.value)]
      [] token = "*" -> LET v == i64_mul(l, r) IN [res |-> v.res, val |-> Integer(v.value)]
      [] token = "/" -> LET v == i64_div(l, r) IN [res |-> v.res, val |-> Integer(v.value)]
      [] token = "<" -> [res |-> Ok, val |-> Boolean(l < r)]
      [] token = ">" -> [res |-> Ok, val |-> Boolean(l > r)]
      [] token = "==" -> [res |-> Ok, val |-> Boolean(l = r)]
      [] token = "!=" -> [res |-> Ok, val |-> Boolean(l # r)]
      [] OTHER -> [res |-> Err("unable to evaluate infix expression; +,-,*,/,<,>,==,!= Tokens expected"),
                   val |-> Null]

\* eval_infix_expression.
eval_infix_expression(token, left, right) ==
    IF left.kind = "Integer" /\ right.kind = "Integer"
    THEN eval_integer_infix(token, left.value, right.value)
    ELSE IF left.kind = "Boolean" /\ right.kind = "Boolean"
    THEN CASE token = "==" -> [res |-> Ok, val |-> Boolean(left.bvalue = right.bvalue)]
           [] token = "!=" -> [res |-> Ok, val |-> Boolean(left.bvalue # right.bvalue)]
           [] OTHER -> [res |-> Err("unable to evaluate infix expression; == or != Tokens expected"),
                        val |-> Null]
    ELSE [res |-> Err("unable to evaluate infix expression, Integer numbers expected"),
          val |-> Null]

RECURSIVE eval(_)
\* eval, on an Expression node.
eval(node) ==
    CASE node.node = "IntegerLiteral" -> [res |-> Ok, val |-> Integer(node.value)]
      [] node.node = "Boolean" -> [res |-> Ok, val |-> Boolean(node.bvalue)]
      [] node.node = "Prefix" ->
           LET right == eval(node.right)
           IN  IF right.res.tag # "Ok" THEN right
               ELSE eval_prefix_expression(node.token, right.val)
      [] node.node = "Infix" ->
           LET left == eval(node.left)
               right == eval(node.right)
           IN  IF left.res.tag # "Ok" THEN left
               ELSE IF right.res.tag # "Ok" THEN right
               ELSE eval_infix_expression(node.token, left.val, right.val)
      [] OTHER -> [res |-> Panic("not yet implemented"), val |-> Null]

RECURSIVE eval_statements_from(_, _)
\* The loop of eval_statements: result is the value of the statement before.
eval_statements_from(statements, result) ==
    IF statements = <<>> THEN [res |-> Ok, val |-> result]
    ELSE LET r == eval(Head(statements).expression)
         IN  IF r.res.tag # "Ok" THEN r
             ELSE eval_statements_from(Tail(statements), r.val)

\* eval_statements, on the expression statements of a program.
eval_statements(statements) == eval_statements_from(statements, Null)

-----------------------------------------------------------------------------
(* The inputs: source programs of at most MaxNodes nodes, and hand-built   *)
(* ByteCode of at most MaxRawInstrs instructions.                          *)

IntegerLiterals == {0, 1, 2, I64_MAX}

Atoms ==
    {IntegerLiteral(v) : v \in IntegerLiterals}
        \cup {BooleanLiteral(b) : b \in BOOLEAN}

PrefixTokens == {"!", "-"}
InfixTokens == {"+", "-", "*", "/", "<", ">", "==", "!="}

RECURSIVE ExprsOfSize(_)
RECURSIVE StatementsOfSize(_)

\* The sequences of expression statements with n expression nodes in all.
StatementsOfSize(n) ==
    IF n = 0 THEN {<<>>}
    ELSE UNION {{<<ExpressionStatement(e)>> \o rest :
                    e \in ExprsOfSize(k), rest \in StatementsOfSize(n - k)} :
                k \in 1 .. n}

\* The else branches with n expression nodes: none, or a block.
AlternativesOfSize(n) ==
    {Block(b) : b \in StatementsOfSize(n)}
        \cup (IF n = 0 THEN {NoAlternative} ELSE {})

\* The expressions with exactly n nodes.
ExprsOfSize(n) ==
    IF n = 1 THEN Atoms
    ELSE {Prefix(t, e) : t \in PrefixTokens, e \in ExprsOfSize(n - 1)}
         \cup UNION {{Infix(t, l, r) : t \in InfixTokens,
                        l \in ExprsOfSize(i), r \in ExprsOfSize(n - 1 - i)} :
                     i \in 1 .. n - 2}
         \cup UNION {UNION {{If(cond, Block(cons), alt) :
                               cond \in ExprsOfSize(i),
                               cons \in StatementsOfSize(j),
                               alt \in AlternativesOfSize(n - 1 - i - j)} :
                            j \in 0 .. n - 1 - i} :
                     i \in 1 .. n - 1}

\* Infix expressions nested on either side, over two literals.
NestedInfix ==
    LET lits == {IntegerLiteral(1), IntegerLiteral(2)}
        tokens == {"-", "/", "<", "=="}
    IN  {Infix(t1, Infix(t2, a, b), c) : t1 \in tokens, t2 \in tokens,
                                          a \in lits, b \in lits, c \in lits}
        \cup {Infix(t1, a, Infix(t2, b, c)) : t1 \in tokens, t2 \in tokens,
                                               a \in lits, b \in lits, c \in lits}

\* if/else expressions with both arms, and an if nested in an arm.
NestedIf ==
    LET conds == {BooleanLiteral(TRUE), BooleanLiteral(FALSE), IntegerLiteral(0)}
        arms == {<<ExpressionStatement(IntegerLiteral(1))>>,
                 <<ExpressionStatement(IntegerLiteral(1)),
                   ExpressionStatement(IntegerLiteral(2))>>}
        inner == {If(c, Block(a), alt) : c \in conds, a \in arms \cup {<<>>},
                      alt \in {NoAlternative, Block(<<>>)}
                              \cup {Block(b) : b \in arms}}
    IN  {If(c, Block(a), Block(b)) : c \in conds, a \in arms, b \in arms}
        \cup {If(c, Block(<<ExpressionStatement(i)>>), alt) :
                 c \in {BooleanLiteral(TRUE)}, i \in inner,
                 alt \in {NoAlternative, Block(<<ExpressionStatement(IntegerLiteral(2))>>)}}

\* Prefix expressions whose token is neither Bang nor Minus.
UnsupportedPrefix ==
    {Prefix(t, e) : t \in {"+", "<"},
                    e \in {IntegerLiteral(1), BooleanLiteral(TRUE),
                           Prefix("!", BooleanLiteral(TRUE))}}

\* Infix expressions whose token is no infix operator of the compiler.
UnsupportedInfix ==
    {Infix(t, l, IntegerLiteral(2)) : t \in {"!", ","},
                                      l \in {IntegerLiteral(1), BooleanLiteral(TRUE)}}

\* One statement of each kind compile has no code for.
UnimplementedStatements ==
    {LetStatement("x", IntegerLiteral(1)), ReturnStatement(IntegerLiteral(1))}
        \cup {ExpressionStatement(e) :
                 e \in {Identifier("x"), StringLiteral("s"),
                        FunctionLiteral(<<>>, Block(<<>>)),
                        Call(Identifier("f"), <<>>),
                        ArrayLiteral(<<>>),
                        IndexExpression(Identifier("x"), IntegerLiteral(0)),
                        HashLiteral(<<>>)}}

\* The source programs: every sequence of expression statements of at most
\* MaxNodes nodes, and the nested expressions above as single statements,
\* alone or after another statement.
Programs ==
    UNION {StatementsOfSize(n) : n \in 0 .. MaxNodes}
        \cup {<<ExpressionStatement(e)>> :
                 e \in NestedInfix \cup NestedIf \cup UnsupportedPrefix
                          \cup UnsupportedInfix}
        \cup {<<s>> : s \in UnimplementedStatements}
        \cup {<<ExpressionStatement(IntegerLiteral(1)), s>> :
                 s \in UnimplementedStatements}
        \cup {<<ExpressionStatement(IntegerLiteral(2)), ExpressionStatement(e)>> :
                 e \in NestedIf}

\* The constants pool of the hand-built ByteCode.
RawConstants == <<Integer(2), Null>>

\* One instruction of a hand-built ByteCode; 15 is no opcode.
RawInstructions ==
    {make(op, <<>>) : op \in OpCodes \ {OpConstant, OpJumpNotTruthy, OpJump}}
        \cup {make(OpConstant, <<k>>) : k \in 0 .. Len(RawConstants)}
        \cup {make(op, <<0>>) : op \in {OpJumpNotTruthy, OpJump}}
        \cup {<<15>>}

RECURSIVE RawStreams(_)
RawStreams(n) ==
    IF n = 0 THEN {<<>>}
    ELSE RawStreams(n - 1)
         \cup {s \o i : s \in RawStreams(n - 1), i \in RawInstructions}

\* Two constants pushed and one operator applied to them.
OperandStreams ==
    {make(OpConstant, <<i>>) \o make(OpConstant, <<j>>) \o make(op, <<>>) :
        i \in 0 .. Len(RawConstants) - 1, j \in 0 .. Len(RawConstants) - 1,
        op \in OpCodes \ {OpConstant, OpJumpNotTruthy, OpJump}}

\* A Constant whose operand the end of the stream cuts off, first or after
\* another instruction.
CutOffStreams ==
    {before \o cut : before \in {<<>>, make(OpTrue, <<>>), make(OpConstant, <<0>>)},
                     cut \in {<<OpConstant>>, <<OpConstant, 0>>}}

RawByteCodes ==
    {[instructions |-> s, constants |-> RawConstants] :
        s \in RawStreams(MaxRawInstrs) \cup OperandStreams \cup CutOffStreams}

EmptyByteCode == [instructions |-> <<>>, constants |-> <<>>]

-----------------------------------------------------------------------------
(* The specification.                                                      *)

Init ==
    /\ build \in {"debug", "release"}
    /\ \/ /\ origin = "source"
          /\ program \in Programs
          /\ byte_code = EmptyByteCode
          /\ pc = "compile"
       \/ /\ origin = "raw"
          /\ program = <<>>
          /\ byte_code \in RawByteCodes
          /\ pc = "vm_new"
    /\ compiler = NewCompiler
    /\ compile_result = NotReturned
    /\ instructions = <<>>
    /\ constants = <<>>
    /\ stack = <<>>
    /\ sp = 0
    /\ ip = 0
    /\ run_result = NotReturned
    /\ parser = NoParser
    /\ parse_result = NotReturned

\* compiler.compile(program), then compiler.byte_code() when it returned Ok.
Compile ==
    /\ pc = "compile"
    /\ LET r == compile_statements(compiler, program)
       IN  /\ compiler' = r.c
           /\ compile_result' = r.res
           /\ IF r.res.tag = "Ok"
              THEN byte_code' = ByteCodeOf(r.c) /\ pc' = "vm_new"
              ELSE byte_code' = byte_code /\ pc' = "done"
    /\ UNCHANGED <<parser, parse_result, build, origin, program, instructions, constants, stack, sp,
                   ip, run_result>>

Next ==
    \/ Compile
    \/ VmNew
    \/ RunBadOpcode
    \/ RunConstant
    \/ RunBinaryOperation
    \/ RunPop
    \/ RunTrue
    \/ RunFalse
    \/ RunComparison
    \/ RunBang
    \/ RunMinus
    \/ RunTodo
    \/ RunReturnOk

Spec == Init /\ [][Next]_vars

-----------------------------------------------------------------------------
(* The stack at its capacity: the VM on a hand-built stream that pushes    *)
(* once more than the stack holds.                                         *)

DeepStream == [i \in 1 .. STACK_SIZE + 1 |-> OpTrue]

InitDeep ==
    /\ build \in {"debug", "release"}
    /\ origin = "raw"
    /\ program = <<>>
    /\ byte_code = [instructions |-> DeepStream, constants |-> <<>>]
    /\ pc = "vm_new"
    /\ compiler = NewCompiler
    /\ compile_result = NotReturned
    /\ instructions = <<>>
    /\ constants = <<>>
    /\ stack = <<>>
    /\ sp = 0
    /\ ip = 0
    /\ run_result = NotReturned
    /\ parser = NoParser
    /\ parse_result = NotReturned

NextDeep == VmNew \/ RunTrue

SpecDeep == InitDeep /\ [][NextDeep]_vars

-----------------------------------------------------------------------------
(* The encoder on its own: instructions emitted one at a time into a new   *)
(* compiler, as the compiler's tests build their expected streams, and     *)
(* the byte code then taken and displayed.  Here program holds the emit    *)
(* calls made so far, each with the position emit returned.                *)

MaxEmits == 3

\* Operands at the ends of the u16 range and one whose two bytes differ.
EmitOperands == {0, 258, 65535}

EmitCall(op, operands, pos) ==
    [node |-> "Emit", op |-> op, operands |-> operands, pos |-> pos]

\* Neither emit nor the display computes anything that can overflow, so the
\* two builds behave alike here and one is taken.
InitEmit ==
    /\ build = "debug"
    /\ origin = "emit"
    /\ program = <<>>
    /\ byte_code = EmptyByteCode
    /\ pc = "emit"
    /\ compiler = NewCompiler
    /\ compile_result = NotReturned
    /\ instructions = <<>>
    /\ constants = <<>>
    /\ stack = <<>>
    /\ sp = 0
    /\ ip = 0
    /\ run_result = NotReturned
    /\ parser = NoParser
    /\ parse_result = NotReturned

\* compiler.emit(op, operands).
Emit ==
    /\ pc = "emit"
    /\ Len(program) < MaxEmits
    /\ \E op \in OpCodes :
          \E operands \in IF OperandWidths(op) = <<2>>
                          THEN {<<v>> : v \in EmitOperands} ELSE {<<>>} :
             LET e == emit(compiler, op, operands)
             IN  /\ compiler' = e.c
                 /\ program' = Append(program, EmitCall(op, operands, e.pos))
    /\ UNCHANGED <<parser, parse_result, build, origin, compile_result, byte_code, instructions,
                   constants, stack, sp, ip, run_result, pc>>

\* compiler.byte_code(), whose instructions the tests display.
TakeByteCode ==
    /\ pc = "emit"
    /\ byte_code' = ByteCodeOf(compiler)
    /\ pc' = "printed"
    /\ UNCHANGED <<parser, parse_result, build, origin, program, compiler, compile_result,
                   instructions, constants, stack, sp, ip, run_result>>

\* byte_code.instructions.to_string()
Disassembly == to_string(byte_code.instructions)

NextEmit == Emit \/ TakeByteCode

SpecEmit == InitEmit /\ [][NextEmit]_vars

-----------------------------------------------------------------------------
(* The compiler's bookkeeping on its own: the emits compile makes, the     *)
(* removal of a trailing Pop where compile makes it, and one change of an  *)
(* operand at any position.  program holds the calls made so far.          *)

RemoveCall == [node |-> "RemoveLastPop"]
ChangeCall(pos, operand) ==
    [node |-> "ChangeOperand", pos |-> pos, operand |-> operand]

\* The operands change_operand is given.
PatchOperands == {258, 65535}

EmitCalls == {i \in 1 .. Len(program) : program[i].node = "Emit"}

\* An emit as compile makes it: an integer literal adds its constant and emits
\* Constant with the index, a jump is emitted with the placeholder operand.
EmitInstruction ==
    /\ pc = "emit"
    /\ Cardinality(EmitCalls) < MaxEmits
    /\ \E op \in {OpConstant, OpTrue, OpPop, OpJumpNotTruthy, OpJump} :
          LET a == IF op = OpConstant THEN add_constant(compiler, Integer(1))
                   ELSE [c |-> compiler, idx |-> 0]
              operands == CASE op = OpConstant -> <<a.idx>>
                            [] op \in {OpJumpNotTruthy, OpJump} -> <<KEKL_VALUE>>
                            [] OTHER -> <<>>
              e == emit(a.c, op, operands)
          IN  /\ compiler' = e.c
              /\ program' = Append(program, EmitCall(op, operands, e.pos))
    /\ UNCHANGED <<parser, parse_result, build, origin, compile_result,
                   byte_code, instructions, constants, stack, sp, ip,
                   run_result, pc>>

\* if self.last_instruction_is_pop() { self.remove_last_pop()?; } right after
\* the Pop of the last statement of a block has been emitted.
RemoveLastPop ==
    /\ pc = "emit"
    /\ program # <<>>
    /\ program[Len(program)].node = "Emit"
    /\ last_instruction_is_pop(compiler)
    /\ LET r == remove_last_pop(compiler)
       IN  /\ compiler' = r.c
           /\ compile_result' = r.res
    /\ program' = Append(program, RemoveCall)
    /\ UNCHANGED <<parser, parse_result, build, origin, byte_code,
                   instructions, constants, stack, sp, ip, run_result, pc>>

\* self.change_operand(pos, operand) with any position up to the end of the
\* stream.
ChangeOperand ==
    /\ pc = "emit"
    /\ \E pos \in 0 .. Len(compiler.instructions), operand \in PatchOperands :
          LET r == change_operand(compiler, pos, operand)
          IN  /\ compiler' = r.c
              /\ compile_result' = r.res
              /\ program' = Append(program, ChangeCall(pos, operand))
    /\ pc' = "patched"
    /\ UNCHANGED <<parser, parse_result, build, origin, byte_code,
                   instructions, constants, stack, sp, ip, run_result>>

NextPatch == EmitInstruction \/ RemoveLastPop \/ ChangeOperand

SpecPatch == InitEmit /\ [][NextPatch]_vars

-----------------------------------------------------------------------------
(* The parser (parser/parser.rs) on a token stream.  The lexer is the      *)
(* stream of tokens it has not handed out yet.                             *)

\* Largest number of operands of an operator chain given to the parser.
MaxOperands == 3

\* Lexer::new on an input given as the tokens it holds.
LexerNew(input) == [input |-> input, position |-> 0]

\* Lexer::next_token: the next token, None when the input is used up.
LexerNext(lexer) ==
    IF lexer.position >= Len(lexer.input) THEN [token |-> NoToken, lexer |-> lexer]
    ELSE [token |-> lexer.input[lexer.position + 1],
          lexer |-> [lexer EXCEPT !.position = @ + 1]]

\* Parser::new: reads the first two tokens.
ParserNew(lexer) ==
    LET a == LexerNext(lexer)
        b == LexerNext(a.lexer)
    IN  [lexer |-> b.lexer, cur_token |-> a.token, peek_token |-> b.token]

\* Parser::next_token.
next_token(p) ==
    LET n == LexerNext(p.lexer)
    IN  [lexer |-> n.lexer, cur_token |-> p.peek_token, peek_token |-> n.token]

\* ExpressionType as usize: the precedence levels in their declared order.
ExpressionType ==
    [Lowest |-> 0, Equals |-> 1, LessGreater |-> 2, Sum |-> 3, Product |-> 4,
     Prefix |-> 5]

\* get_precedence with Plus taken for a product.
get_precedence_PlusIsProduct(token) ==
    CASE token.type \in {"Plus", "Asterisk", "Slash"} -> ExpressionType.Product
      [] token.type = "Minus" -> ExpressionType.Sum
      [] token.type \in {"Lt", "Gt"} -> ExpressionType.LessGreater
      [] token.type \in {"Eq", "Ne"} -> ExpressionType.Equals
      [] OTHER -> ExpressionType.Lowest

\* get_precedence.
get_precedence(token) ==
    CASE token.type \in {"Plus", "Minus"} -> ExpressionType.Sum
      [] token.type \in {"Asterisk", "Slash"} -> ExpressionType.Product
      [] token.type \in {"Lt", "Gt"} -> ExpressionType.LessGreater
      [] token.type \in {"Eq", "Ne"} -> ExpressionType.Equals
      [] OTHER -> ExpressionType.Lowest

\* Parser::get_prefix_fn: the name of the function it returns.
get_prefix_fn(p) ==
    CASE p.cur_token.type = "None" ->
            [res |-> Err("unable to parse expression, unknown prefix expression type"),
             fn |-> ""]
      [] p.cur_token.type = "Ident" -> [res |-> Ok, fn |-> "parse_identifier"]
      [] p.cur_token.type = "Int" -> [res |-> Ok, fn |-> "parse_integer_literal"]
      [] p.cur_token.type \in {"Minus", "Bang"} ->
            [res |-> Ok, fn |-> "parse_prefix_expression"]
      [] OTHER -> [res |-> Panic("not yet implemented"), fn |-> ""]

\* Parser::get_infix_fn: every function it returns is parse_infix_expression.
get_infix_fn(p) ==
    CASE p.peek_token.type = "None" ->
            Err("unable to parse expression, unknown prefix expression type")
      [] p.peek_token.type \in
            {"Plus", "Minus", "Asterisk", "Slash", "Lt", "Gt", "Eq", "Ne"} -> Ok
      [] OTHER -> Panic("not yet implemented")

\* The decimal strings the inputs use; str::parse::<i64> gives DecimalStrings[i]
\* the value i and fails on any other string of the inputs.
DecimalStrings == <<"1", "2", "3", "4", "5", "6">>

\* Parser::parse_integer_literal.
parse_integer_literal(p) ==
    IF p.cur_token.type = "Int"
    THEN IF \E i \in DOMAIN DecimalStrings : DecimalStrings[i] = p.cur_token.literal
         THEN [p |-> p, res |-> Ok,
               val |-> IntegerLiteral(
                   CHOOSE i \in DOMAIN DecimalStrings :
                       DecimalStrings[i] = p.cur_token.literal)]
         ELSE [p |-> p,
               res |-> Err("unable to parse integer literal, isize cast error"),
               val |-> NoAlternative]
    ELSE [p |-> p, res |-> Err("unable to parse integer literal, wrong token found"),
          val |-> NoAlternative]

RECURSIVE parse_expression(_, _)
RECURSIVE parse_expression_loop(_, _, _)

\* Parser::parse_prefix_expression.
parse_prefix_expression(p) ==
    LET r == parse_expression(next_token(p), ExpressionType.Prefix)
    IN  IF r.res.tag # "Ok" THEN r
        ELSE [p |-> r.p, res |-> Ok, val |-> Prefix(p.cur_token, r.val)]

\* parse_infix_expression that parses its right side one level lower.
parse_infix_expression_RightFirst(p, left) ==
    LET r == parse_expression(next_token(p), get_precedence(p.cur_token) - 1)
    IN  IF r.res.tag # "Ok" THEN r
        ELSE [p |-> r.p, res |-> Ok, val |-> Infix(p.cur_token, left, r.val)]

\* Parser::parse_infix_expression.
parse_infix_expression(p, left) ==
    LET r == parse_expression(next_token(p), get_precedence(p.cur_token))
    IN  IF r.res.tag # "Ok" THEN r
        ELSE [p |-> r.p, res |-> Ok, val |-> Infix(p.cur_token, left, r.val)]

\* The while loop of Parser::parse_expression.
parse_expression_loop(p, precedence, left) ==
    IF /\ p.peek_token.type \notin {"None", "Semicolon"}
       /\ precedence < get_precedence(p.peek_token)
    THEN LET g == get_infix_fn(p)
         IN  IF g.tag # "Ok" THEN [p |-> p, res |-> g, val |-> NoAlternative]
             ELSE LET r == parse_infix_expression(next_token(p), left)
                  IN  IF r.res.tag # "Ok" THEN r
                      ELSE parse_expression_loop(r.p, precedence, r.val)
    ELSE [p |-> p, res |-> Ok, val |-> left]

\* Parser::parse_expression; parse_identifier is the Identifier of cur_token.
parse_expression(p, precedence) ==
    LET f == get_prefix_fn(p)
    IN  IF f.res.tag # "Ok" THEN [p |-> p, res |-> f.res, val |-> NoAlternative]
        ELSE LET left ==
                    CASE f.fn = "parse_identifier" ->
                            [p |-> p, res |-> Ok,
                             val |-> Identifier(p.cur_token.literal)]
                      [] f.fn = "parse_integer_literal" -> parse_integer_literal(p)
                      [] OTHER -> parse_prefix_expression(p)
             IN  IF left.res.tag # "Ok" THEN left
                 ELSE parse_expression_loop(left.p, precedence, left.val)

\* Parser::parse_expression_statement.
parse_expression_statement(p) ==
    LET r == parse_expression(p, ExpressionType.Lowest)
    IN  IF r.res.tag # "Ok" THEN r
        ELSE [p |-> IF r.p.peek_token.type = "Semicolon"
                    THEN next_token(r.p) ELSE r.p,
              res |-> Ok, val |-> ExpressionStatement(r.val)]

\* Parser::expect_peek.
expect_peek(p, type) ==
    IF \/ p.peek_token = Token(type, "")
       \/ p.peek_token.type \in {"Ident", "Int"} /\ type \in {"Ident", "Int"}
    THEN [p |-> next_token(p), found |-> TRUE]
    ELSE [p |-> p, found |-> FALSE]

\* The loop of parse_let_statement and parse_return_statement: tokens are
\* passed over up to the semicolon.
RECURSIVE skip_to_semicolon(_)
skip_to_semicolon(p) ==
    LET n == next_token(p)
    IN  CASE n.cur_token.type = "Semicolon" -> [p |-> n, res |-> Ok]
          [] n.cur_token.type = "None" ->
                [p |-> n,
                 res |-> Err("unable to parse let statement, couldn't find end of statement")]
          [] OTHER -> skip_to_semicolon(n)

\* Parser::parse_let_statement: the value is not parsed.
parse_let_statement(p) ==
    LET name == expect_peek(p, "Ident")
        assign == expect_peek(name.p, "Assign")
        end == skip_to_semicolon(assign.p)
    IN  CASE ~name.found ->
                [p |-> name.p,
                 res |-> Err("unable to parse let statement, identifier expected"),
                 val |-> NoAlternative]
          [] name.found /\ ~assign.found ->
                [p |-> assign.p,
                 res |-> Err("unable to parse let statement, assign token expected"),
                 val |-> NoAlternative]
          [] OTHER ->
                [p |-> end.p, res |-> end.res,
                 val |-> LetStatement(Identifier(name.p.cur_token.literal),
                                      Identifier(""))]

\* Parser::parse_return_statement: the value is not parsed.
parse_return_statement(p) ==
    LET end == skip_to_semicolon(p)
    IN  [p |-> end.p, res |-> end.res, val |-> ReturnStatement(Identifier(""))]

\* Parser::parse_statement.
parse_statement(p) ==
    CASE p.cur_token.type = "None" ->
            [p |-> p, res |-> Err("unable to parse statement, there is no tokens"),
             val |-> NoAlternative]
      [] p.cur_token.type = "Let" -> parse_let_statement(p)
      [] p.cur_token.type = "Return" -> parse_return_statement(p)
      [] OTHER -> parse_expression_statement(p)

\* Parser::parse_program with the statements parsed so far.
RECURSIVE parse_program_from(_, _)
parse_program_from(p, statements) ==
    IF p.cur_token.type = "None"
    THEN [p |-> p, res |-> Ok, val |-> statements]
    ELSE LET s == parse_statement(p)
         IN  IF s.res.tag # "Ok" THEN [p |-> s.p, res |-> s.res, val |-> <<>>]
             ELSE parse_program_from(next_token(s.p), Append(statements, s.val))
parse_program(p) == parse_program_from(p, <<>>)

\* The inputs of the parser: chains of operands joined by infix operators,
\* each operand with or without a prefix operator; the operands are all
\* identifiers or all integers, named by their place in the chain.
InfixOperators ==
    {Token(t, "") :
        t \in {"Plus", "Minus", "Asterisk", "Slash", "Lt", "Gt", "Eq", "Ne"}}
PrefixRuns == {<<>>, <<Token("Minus", "")>>, <<Token("Bang", "")>>}
IdentNames == <<"a", "b", "c", "d", "e", "f">>
Operand(i, kind) ==
    IF kind = "Ident" THEN Token("Ident", IdentNames[i])
    ELSE Token("Int", DecimalStrings[i])

RECURSIVE Chains(_, _, _)
Chains(n, kind, prefixes) ==
    IF n = 1 THEN {pre \o <<Operand(1, kind)>> : pre \in prefixes}
    ELSE {c \o <<op>> \o pre \o <<Operand(n, kind)>> :
             c \in Chains(n - 1, kind, prefixes), op \in InfixOperators,
             pre \in prefixes}

\* a + b * c + d / e - f and !-a of operator_precedence_test.
LongChain ==
    <<Operand(1, "Ident"), Token("Plus", ""), Operand(2, "Ident"),
      Token("Asterisk", ""), Operand(3, "Ident"), Token("Plus", ""),
      Operand(4, "Ident"), Token("Slash", ""), Operand(5, "Ident"),
      Token("Minus", ""), Operand(6, "Ident")>>
BangMinus == <<Token("Bang", ""), Token("Minus", ""), Operand(1, "Ident")>>

\* Chains of up to max identifiers, chains of one and two integers
\* and the two chains of the test.
OperatorChains(max) ==
    UNION {Chains(n, "Ident", PrefixRuns) : n \in 1 .. max}
        \cup Chains(2, "Int", PrefixRuns) \cup Chains(1, "Int", PrefixRuns)
        \cup {LongChain, BangMinus}

\* Inputs with statement ends, let and return, an operator without its right
\* side, an integer that does not parse and tokens no expression starts with.
OtherStreams ==
    {c \o <<Token("Semicolon", "")>> : c \in Chains(2, "Ident", PrefixRuns)}
    \cup {c \o <<Token("Semicolon", "")>> \o d :
             c \in Chains(2, "Int", PrefixRuns), d \in Chains(1, "Int", PrefixRuns)}
    \cup {<<Token("Let", ""), Operand(1, "Ident"), Token("Assign", "")>> \o c
              \o <<Token("Semicolon", "")>> : c \in Chains(1, "Int", PrefixRuns)}
    \cup {<<Token("Return", "")>> \o c \o <<Token("Semicolon", "")>> :
             c \in Chains(1, "Ident", PrefixRuns)}
    \cup {<<Token("Let", ""), Token("Assign", "")>>,
          <<Token("Let", ""), Operand(1, "Ident"), Operand(2, "Ident")>>,
          <<Token("Return", ""), Operand(1, "Ident")>>,
          <<Operand(1, "Ident"), Token("Plus", "")>>,
          <<Token("Int", "x")>>,
          <<Token("LParen", ""), Operand(1, "Ident"), Token("RParen", "")>>,
          <<Operand(1, "Ident"), Token("Assign", ""), Operand(2, "Ident")>>}

TokenStreams(max) == OperatorChains(max) \cup OtherStreams

\* The parser computes nothing that can overflow, so the two builds behave
\* alike here and one is taken.
InitParse ==
    /\ build = "debug"
    /\ origin = "tokens"
    /\ \E input \in TokenStreams(MaxOperands) : parser = ParserNew(LexerNew(input))
    /\ parse_result = NotReturned
    /\ program = <<>>
    /\ byte_code = EmptyByteCode
    /\ pc = "parse"
    /\ compiler = NewCompiler
    /\ compile_result = NotReturned
    /\ instructions = <<>>
    /\ constants = <<>>
    /\ stack = <<>>
    /\ sp = 0
    /\ ip = 0
    /\ run_result = NotReturned

\* parser.parse_program()
ParseProgram ==
    /\ pc = "parse"
    /\ LET r == parse_program(parser)
       IN  /\ parser' = r.p
           /\ parse_result' = r.res
           /\ program' = r.val
    /\ pc' = "parsed"
    /\ UNCHANGED <<build, origin, compiler, compile_result, byte_code,
                   instructions, constants, stack, sp, ip, run_result>>

NextParse == ParseProgram

SpecParse == InitParse /\ [][NextParse]_vars

-----------------------------------------------------------------------------
(* What the claims speak of.                                               *)

\* Truthy: any value other than Boolean(false) and Null.
Truthy(v) == ~(v.kind = "Null" \/ (v.kind = "Boolean" /\ ~v.bvalue))

\* The 2-byte operand of the instruction at byte offset i.
OperandAt(i) == read_u16(SliceFrom(instructions, i + 1))

\* The value on top of the stack, and the one below it.
Top == StackGet(stack, sp - 1)
Below == StackGet(stack, sp - 2)

\* The expression of the last statement of the program.
LastExpression == program[Len(program)].expression

ArithmeticOps == {OpAdd, OpSub, OpMul, OpDiv}
ComparisonOps == {OpEqual, OpNotEqual, OpGreaterThan}

\* left op right over the mathematical integers, the quotient truncated.
Arithmetic(op, l, r) ==
    CASE op = OpAdd -> l + r
      [] op = OpSub -> l - r
      [] op = OpMul -> l * r
      [] op = OpDiv -> IF (l < 0) = (r < 0) THEN Abs(l) \div Abs(r)
                       ELSE -(Abs(l) \div Abs(r))

\* left op right has a value, and the value is an Integer.
ArithmeticDefined(op, l, r) ==
    /\ op = OpDiv => r # 0
    /\ (op # OpDiv \/ r # 0) => InI64(Arithmetic(op, l, r))

-----------------------------------------------------------------------------
\* C1: for a program of expression statements that compiles, whenever run
\* returns Ok the stack pointer is 0 and last_popped_stack_elem returns the
\* value of the last expression statement (the value the evaluator gives it).
C1_StackBalance ==
    (origin = "source" /\ pc = "done" /\ run_result.tag = "Ok") =>
        /\ sp = 0
        /\ (program # <<>> /\ eval(LastExpression).res.tag = "Ok") =>
              last_popped_stack_elem = [res |-> Ok, val |-> eval(LastExpression).val]

\* C1's case: run has returned Ok on the program 1 - (2 - 1); the stack is
\* empty again and the value last popped is Integer(0).
C1_Witness ==
    /\ origin = "source" /\ pc = "done" /\ run_result.tag = "Ok"
    /\ program = <<ExpressionStatement(
                     Infix("-", IntegerLiteral(1),
                           Infix("-", IntegerLiteral(2), IntegerLiteral(1))))>>
    /\ sp = 0
    /\ last_popped_stack_elem.val = Integer(0)

\* C2: a dispatched JumpNotTruthy pops one value and goes on at the operand
\* when the value is not truthy, else right after the operand (ip + 3).
C2_JumpNotTruthy ==
    [][(Dispatching(OpJumpNotTruthy) /\ sp > 0 /\ ip + 3 <= Len(instructions)) =>
          /\ pc' = "run"
          /\ sp' = sp - 1
          /\ ip' = IF Truthy(Top) THEN ip + 3 ELSE OperandAt(ip)]_vars

\* C3: a dispatched Jump leaves the stack unchanged and goes on at the
\* byte offset given by its operand.
C3_Jump ==
    [][(Dispatching(OpJump) /\ ip + 3 <= Len(instructions)) =>
          /\ pc' = "run"
          /\ stack' = stack /\ sp' = sp
          /\ ip' = OperandAt(ip)]_vars

\* An if/else expression statement whose condition and arms' last statements
\* the evaluator gives a value.
IfElseStatement ==
    /\ origin = "source" /\ Len(program) = 1
    /\ program[1].node = "Expression"
    /\ LastExpression.node = "If"
    /\ LastExpression.alternative.node = "Block"
    /\ LastExpression.consequence.statements # <<>>
    /\ LastExpression.alternative.statements # <<>>
    /\ eval(LastExpression.condition).res.tag = "Ok"

\* The value of the arm an if/else expression takes.
ArmValue(e) ==
    LET arm == IF Truthy(eval(e.condition).val) THEN e.consequence.statements
               ELSE e.alternative.statements
    IN  eval(arm[Len(arm)].expression)

\* C4: an if/else expression statement compiles, run returns Ok, and the
\* value popped by the statement is the value of the arm the condition takes.
C4_IfElse ==
    (IfElseStatement /\ pc = "done" /\ ArmValue(LastExpression).res.tag = "Ok") =>
        /\ compile_result.tag = "Ok"
        /\ run_result.tag = "Ok"
        /\ sp = 0
        /\ last_popped_stack_elem = [res |-> Ok, val |-> ArmValue(LastExpression).val]

\* C5: Add, Sub, Mul, Div on two Integers, wherever left op right has an
\* Integer value: the value on top is the right operand, the one pushed
\* before it the left; Integer(left op right) replaces the two, sp is one less.
C5_BinaryArithmetic ==
    [][\A op \in ArithmeticOps :
          (/\ Dispatching(op) /\ sp >= 2
           /\ Below.kind = "Integer" /\ Top.kind = "Integer"
           /\ ArithmeticDefined(op, Below.value, Top.value)) =>
              /\ pc' = "run" /\ ip' = ip + 1
              /\ sp' = sp - 1
              /\ StackGet(stack', sp' - 1)
                   = Integer(Arithmetic(op, Below.value, Top.value))]_vars

\* C5's case: Sub has run on 1 and 2, pushed in this order: Integer(-1) is
\* on top, and the slot above still holds the right operand.
C5_Witness ==
    /\ pc = "run" /\ ip >= 1 /\ At(instructions, ip - 1) = OpSub
    /\ constants = <<Integer(1), Integer(2)>>
    /\ sp = 1
    /\ StackGet(stack, 0) = Integer(-1)
    /\ StackGet(stack, 1) = Integer(2)

\* left op right for a comparison of two integers.
IntegerComparison(op, l, r) ==
    CASE op = OpEqual -> l = r
      [] op = OpNotEqual -> l # r
      [] op = OpGreaterThan -> l > r

\* left op right for a comparison of two booleans.
BooleanComparison(op, l, r) ==
    CASE op = OpEqual -> l = r
      [] op = OpNotEqual -> l # r
      [] op = OpGreaterThan -> l /\ ~r

\* C6: Equal, NotEqual, GreaterThan on two Integers or on two Booleans: the
\* value on top is the right operand; Boolean(left op right) replaces the
\* two, GreaterThan on Booleans being true exactly for true > false.
C6_Comparison ==
    [][\A op \in ComparisonOps :
          (Dispatching(op) /\ sp >= 2 /\ Below.kind = Top.kind
               /\ Top.kind \in {"Integer", "Boolean"}) =>
              /\ pc' = "run" /\ ip' = ip + 1
              /\ sp' = sp - 1
              /\ StackGet(stack', sp' - 1)
                   = IF Top.kind = "Integer"
                     THEN Boolean(IntegerComparison(op, Below.value, Top.value))
                     ELSE Boolean(BooleanComparison(op, Below.bvalue, Top.bvalue))]_vars

\* C6's case: GreaterThan has run on true and false, pushed in this order.
C6_Witness ==
    /\ pc = "run" /\ ip >= 1 /\ At(instructions, ip - 1) = OpGreaterThan
    /\ sp = 1
    /\ StackGet(stack, 0) = Boolean(TRUE)
    /\ StackGet(stack, 1) = Boolean(FALSE)
    /\ At(instructions, 0) = OpTrue

\* C7: Bang pops one value and pushes the negation of its truthiness:
\* false for true, true for false and for Null, false for every other value.
C7_Bang ==
    [][(Dispatching(OpBang) /\ sp >= 1) =>
          /\ pc' = "run" /\ ip' = ip + 1
          /\ sp' = sp
          /\ StackGet(stack', sp' - 1) = Boolean(~Truthy(Top))]_vars

\* C8: Minus on Integer n (with -n an Integer) pushes Integer(-n) in its
\* place, sp unchanged; on any other value run returns Err, the value is
\* popped and nothing is pushed.
C8_Minus ==
    [][(Dispatching(OpMinus) /\ sp >= 1) =>
          IF Top.kind = "Integer"
          THEN InI64(-Top.value) =>
                  /\ pc' = "run" /\ ip' = ip + 1
                  /\ sp' = sp
                  /\ StackGet(stack', sp' - 1) = Integer(-Top.value)
          ELSE /\ pc' = "done" /\ run_result'.tag = "Err"
               /\ sp' = sp - 1
               /\ stack' = stack]_vars

\* C8's case: Minus has run on a Boolean and run has returned the error.
C8_Witness ==
    /\ pc = "done" /\ run_result = Err("unsupported type for negation")
    /\ ip < Len(instructions) /\ At(instructions, ip) = OpMinus
    /\ sp = 0
    /\ StackGet(stack, 0).kind = "Boolean"

\* The values an instruction pops.
Pops(op) ==
    IF op \in ArithmeticOps \cup ComparisonOps THEN 2
    ELSE IF op \in {OpPop, OpBang, OpMinus, OpJumpNotTruthy} THEN 1
    ELSE 0

\* C9: an instruction that needs a value while the stack pointer is 0 makes
\* run return Err, and the stack pointer stays within the stack.
C9_PopOnEmpty ==
    [][\A op \in OpCodes :
          (Dispatching(op) /\ sp < Pops(op)) =>
              /\ pc' = "done" /\ run_result'.tag = "Err"
              /\ sp' \in 0 .. STACK_SIZE]_vars

\* The instructions that push without popping.
PushOnly == {OpConstant, OpTrue, OpFalse}

\* C10: sp stays within 0 .. STACK_SIZE, and a push at sp = STACK_SIZE makes
\* run return Err("stack overflow") and leaves sp and the stack unchanged.
C10_StackBounds ==
    [][/\ sp' \in 0 .. STACK_SIZE
       /\ \A op \in PushOnly :
             (Dispatching(op) /\ sp = STACK_SIZE
                  /\ (op = OpConstant =>
                        /\ ip + 3 <= Len(instructions)
                        /\ InRange(constants, OperandAt(ip)))) =>
                 /\ pc' = "done" /\ run_result' = Err("stack overflow")
                 /\ sp' = sp /\ stack' = stack]_vars

\* The part of C10 about the full stack, on the stream of STACK_SIZE + 1
\* pushes: sp never exceeds STACK_SIZE, and once run has returned it has
\* returned Err("stack overflow") with every slot as the pushes left it.
PushOnFullStack ==
    /\ sp \in 0 .. STACK_SIZE
    /\ pc = "done" =>
          /\ run_result = Err("stack overflow")
          /\ sp = STACK_SIZE
          /\ stack = [i \in 1 .. STACK_SIZE |-> Boolean(TRUE)]

-----------------------------------------------------------------------------
\* C11: Div on two Integers with the divisor Integer(0) makes run return
\* Err: run neither aborts nor pushes a value.
C11_DivByZero ==
    [][(/\ Dispatching(OpDiv) /\ sp >= 2
        /\ Below.kind = "Integer" /\ Top.kind = "Integer"
        /\ Top.value = 0) =>
           /\ pc' = "done" /\ run_result'.tag = "Err"
           /\ stack' = stack]_vars

\* The two operands of an arithmetic instruction are not both Integers.
ArithmeticMismatch == ~(Below.kind = "Integer" /\ Top.kind = "Integer")

\* The two operands of a comparison are neither both Integers nor both
\* Booleans.
ComparisonMismatch ==
    ~(Below.kind = Top.kind /\ Top.kind \in {"Integer", "Boolean"})

\* C12: an arithmetic instruction on operands that are not both Integers,
\* and a comparison on operands that are neither both Integers nor both
\* Booleans, make run return Err; both operands are popped, nothing is pushed.
C12_TypeMismatch ==
    [][\A op \in ArithmeticOps \cup ComparisonOps :
          (/\ Dispatching(op) /\ sp >= 2
           /\ IF op \in ArithmeticOps THEN ArithmeticMismatch
              ELSE ComparisonMismatch) =>
              /\ pc' = "done" /\ run_result'.tag = "Err"
              /\ sp' = sp - 2
              /\ stack' = stack]_vars

\* C12's case: Equal has run on an Integer and a Boolean and run has
\* returned the error, with both operands popped and their slots as they were.
C12_Witness ==
    /\ pc = "done" /\ run_result = Err("couldn't compare two objects")
    /\ ip < Len(instructions) /\ At(instructions, ip) = OpEqual
    /\ sp = 0
    /\ StackGet(stack, 0).kind = "Integer"
    /\ StackGet(stack, 1).kind = "Boolean"
    /\ Len(stack) = 2

RECURSIVE IfFree(_)
\* The expression is built from literals, prefix and infix operators only.
IfFree(node) ==
    CASE node.node \in {"IntegerLiteral", "Boolean"} -> TRUE
      [] node.node = "Prefix" -> IfFree(node.right)
      [] node.node = "Infix" -> IfFree(node.left) /\ IfFree(node.right)
      [] OTHER -> FALSE

\* A compiled program of expression statements over literals, prefix and
\* infix operators, once run has ended.
AcceptedProgramRan ==
    /\ origin = "source" /\ pc = "done"
    /\ compile_result.tag = "Ok"
    /\ \A i \in 1 .. Len(program) : IfFree(program[i].expression)

\* C13: for a compiled program over literals, prefix and infix operators,
\* eval and the VM both fail, or both succeed and the value eval returns is
\* the VM's last popped element.
C13_VmEvaluatorEquivalence ==
    AcceptedProgramRan =>
        IF run_result.tag = "Ok"
        THEN /\ eval_statements(program).res.tag = "Ok"
             /\ last_popped_stack_elem = [res |-> Ok, val |-> eval_statements(program).val]
        ELSE eval_statements(program).res.tag # "Ok"

\* The program is the one expression statement a < b, and it is compiled.
LessThanCompiled ==
    /\ origin = "source" /\ pc # "compile"
    /\ Len(program) = 1
    /\ program[1].node = "Expression"
    /\ program[1].expression.node = "Infix"
    /\ program[1].expression.token = "<"

\* What a fresh compiler gives for the one expression statement b > a.
SwappedGreaterThan ==
    compile_statements(NewCompiler,
        <<ExpressionStatement(Infix(">", program[1].expression.right,
                                    program[1].expression.left))>>)

\* C14: compiling a < b gives the instruction bytes and the constants pool
\* of compiling b > a, and the instruction emitted for < is GreaterThan.
C14_LessThanLowering ==
    LessThanCompiled =>
        /\ compile_result = SwappedGreaterThan.res
        /\ compiler.instructions = SwappedGreaterThan.c.instructions
        /\ compiler.constants = SwappedGreaterThan.c.constants
        /\ compile_result.tag = "Ok" =>
              /\ compiler.prev_instruction = EmittedInstruction(OpGreaterThan,
                                                 Len(compiler.instructions) - 2)
              /\ compiler.last_instruction = EmittedInstruction(OpPop,
                                                 Len(compiler.instructions) - 1)

\* C14's case: (1 - 2) < 2 is compiled: the constant 2 of the right operand
\* comes first, then the code of 1 - 2, then GreaterThan and the Pop.
C14_Witness ==
    /\ LessThanCompiled
    /\ program[1].expression.left = Infix("-", IntegerLiteral(1), IntegerLiteral(2))
    /\ program[1].expression.right = IntegerLiteral(2)
    /\ compile_result.tag = "Ok"
    /\ compiler.constants = <<Integer(2), Integer(1), Integer(2)>>
    /\ compiler.instructions =
          make(OpConstant, <<0>>) \o make(OpConstant, <<1>>)
              \o make(OpConstant, <<2>>) \o make(OpSub, <<>>)
              \o make(OpGreaterThan, <<>>) \o make(OpPop, <<>>)

-----------------------------------------------------------------------------
(* The code compiled for an if expression.                                 *)

RECURSIVE InstructionStartsFrom(_, _)
\* The offsets of the opcode bytes of a stream, from offset i on.
InstructionStartsFrom(ins, i) ==
    IF i >= Len(ins) THEN {}
    ELSE {i} \cup InstructionStartsFrom(ins,
                      i + 1 + (IF OperandWidths(At(ins, i)) = <<2>> THEN 2 ELSE 0))

InstructionStarts(ins) == InstructionStartsFrom(ins, 0)

\* The opcode of the instruction that ends right before offset i (255 when
\* no instruction ends there).
OpBefore(ins, i) ==
    LET before == {s \in InstructionStarts(ins) : s < i}
    IN  IF before = {} THEN 255
        ELSE At(ins, CHOOSE s \in before : \A t \in before : t <= s)

\* The program is one expression statement, an if expression, and it is
\* compiled.
IfCompiled ==
    /\ origin = "source" /\ pc # "compile"
    /\ Len(program) = 1
    /\ program[1].node = "Expression"
    /\ program[1].expression.node = "If"
    /\ compile_result.tag = "Ok"

TheIf == program[1].expression

\* The compiler after the condition and the JumpNotTruthy placeholder.
AfterCondition ==
    emit(compile(NewCompiler, TheIf.condition).c, OpJumpNotTruthy, <<KEKL_VALUE>>).c

\* The compiler after the consequence, as the if arm of compile leaves it.
AfterConsequence == elide_last_pop(compile(AfterCondition, TheIf.consequence).c).c

\* The compiler after the Jump placeholder of an if with an else.
AfterJump == emit(AfterConsequence, OpJump, <<KEKL_VALUE>>).c

\* The compiler after the alternative, as the if arm of compile leaves it.
AfterAlternative == elide_last_pop(compile(AfterJump, TheIf.alternative).c).c

\* The bytes from offset from up to offset to.
Bytes(ins, from, to) == SubSeq(ins, from + 1, to)

\* The bytes a compiler in state c appends for the expression e alone.
ExpressionCode(c, e) == SliceFrom(compile(c, e).c.instructions, Len(c.instructions))

RECURSIVE SingleStatementArms(_)
\* Every arm of every if expression in the node is one expression statement.
SingleStatementArms(node) ==
    CASE node.node \in {"IntegerLiteral", "Boolean"} -> TRUE
      [] node.node = "Prefix" -> SingleStatementArms(node.right)
      [] node.node = "Infix" ->
           SingleStatementArms(node.left) /\ SingleStatementArms(node.right)
      [] node.node = "If" ->
           /\ SingleStatementArms(node.condition)
           /\ SingleStatementArms(node.consequence)
           /\ SingleStatementArms(node.alternative)
      [] node.node = "Block" ->
           /\ Len(node.statements) = 1
           /\ SingleStatementArms(node.statements[1].expression)
      [] OTHER -> TRUE

\* C15: an if arm that is one expression statement is kept as the code of
\* its expression alone, the statement's Pop removed: the consequence ends
\* where the Jump (or the code after the if) begins, the alternative where
\* the code after the if begins, and in a program whose arms are all single
\* expression statements no Jump and no jump target comes right after a Pop.
C15_TrailingPopElision ==
    IfCompiled =>
        /\ Len(TheIf.consequence.statements) = 1 =>
              LET code == ExpressionCode(AfterCondition,
                                         TheIf.consequence.statements[1].expression)
                  from == Len(AfterCondition.instructions)
              IN  /\ Len(code) > 0
                  /\ Bytes(compiler.instructions, from, from + Len(code)) = code
                  /\ At(compiler.instructions, from + Len(code))
                       = IF TheIf.alternative.node = "Block" THEN OpJump ELSE OpPop
                  /\ OpBefore(compiler.instructions, from + Len(code)) # OpPop
        /\ (TheIf.alternative.node = "Block"
              /\ Len(TheIf.alternative.statements) = 1) =>
              LET code == ExpressionCode(AfterJump,
                                         TheIf.alternative.statements[1].expression)
                  from == Len(AfterJump.instructions)
              IN  /\ Len(code) > 0
                  /\ Bytes(compiler.instructions, from, from + Len(code)) = code
                  /\ Len(compiler.instructions) = from + Len(code) + 1
                  /\ At(compiler.instructions, from + Len(code)) = OpPop
                  /\ OpBefore(compiler.instructions, from + Len(code)) # OpPop
        /\ SingleStatementArms(TheIf) =>
              \A s \in InstructionStarts(compiler.instructions) :
                  /\ At(compiler.instructions, s) = OpJump =>
                        OpBefore(compiler.instructions, s) # OpPop
                  /\ At(compiler.instructions, s) \in {OpJump, OpJumpNotTruthy} =>
                        OpBefore(compiler.instructions,
                                 read_u16(SliceFrom(compiler.instructions, s + 1))) # OpPop

\* C15's case: if (true) { 1 } else { 1 } is compiled to True,
\* JumpNotTruthy 10, Constant 0, Jump 13, Constant 1, Pop.
C15_Witness ==
    /\ IfCompiled
    /\ TheIf = If(BooleanLiteral(TRUE),
                  Block(<<ExpressionStatement(IntegerLiteral(1))>>),
                  Block(<<ExpressionStatement(IntegerLiteral(1))>>))
    /\ compiler.instructions =
          make(OpTrue, <<>>) \o make(OpJumpNotTruthy, <<10>>)
              \o make(OpConstant, <<0>>) \o make(OpJump, <<13>>)
              \o make(OpConstant, <<1>>) \o make(OpPop, <<>>)

\* The 2-byte operand of the instruction at offset s of a stream.
OperandOf(ins, s) == read_u16(SliceFrom(ins, s + 1))

\* C16: after a successful compile, every Jump and JumpNotTruthy of the
\* final stream has as operand the offset of an opcode byte of the stream:
\* not the placeholder, not an offset inside an operand, not past the end.
C16_JumpPatching ==
    (origin = "source" /\ pc # "compile" /\ compile_result.tag = "Ok") =>
        \A s \in InstructionStarts(compiler.instructions) :
            /\ At(compiler.instructions, s) \in OpCodes
            /\ At(compiler.instructions, s) \in {OpJump, OpJumpNotTruthy} =>
                  /\ s + 3 <= Len(compiler.instructions)
                  /\ OperandOf(compiler.instructions, s) # KEKL_VALUE
                  /\ OperandOf(compiler.instructions, s)
                       \in InstructionStarts(compiler.instructions)

\* C16's case: if (true) { if (true) { } } is compiled; both JumpNotTruthy
\* have the offset 8 of the statement's Pop as operand.
C16_Witness ==
    /\ IfCompiled
    /\ TheIf = If(BooleanLiteral(TRUE),
                  Block(<<ExpressionStatement(
                            If(BooleanLiteral(TRUE), Block(<<>>), NoAlternative))>>),
                  NoAlternative)
    /\ compiler.instructions =
          make(OpTrue, <<>>) \o make(OpJumpNotTruthy, <<8>>)
              \o make(OpTrue, <<>>) \o make(OpJumpNotTruthy, <<8>>)
              \o make(OpPop, <<>>)

\* The offset of the JumpNotTruthy of the if expression statement.
JumpNotTruthyPos == Len(AfterCondition.instructions) - 3

\* The offset at which the kept code of the consequence ends.
ConsequenceEnd == Len(AfterConsequence.instructions)

\* C17: in the code of an if expression statement, the JumpNotTruthy operand
\* is the offset right after the consequence when there is no else, and the
\* offset right after the Jump (the start of the alternative) when there is
\* one; the Jump sits right after the consequence and its operand is the
\* offset right after the alternative's code.
C17_JumpOperands ==
    IfCompiled =>
        /\ At(compiler.instructions, JumpNotTruthyPos) = OpJumpNotTruthy
        /\ IF TheIf.alternative.node = "None"
           THEN /\ OperandOf(compiler.instructions, JumpNotTruthyPos) = ConsequenceEnd
                /\ ConsequenceEnd = Len(compiler.instructions) - 1
           ELSE /\ At(compiler.instructions, ConsequenceEnd) = OpJump
                /\ OperandOf(compiler.instructions, JumpNotTruthyPos) = ConsequenceEnd + 3
                /\ OperandOf(compiler.instructions, ConsequenceEnd)
                     = Len(AfterAlternative.instructions)
                /\ Len(AfterAlternative.instructions) = Len(compiler.instructions) - 1
        /\ At(compiler.instructions, Len(compiler.instructions) - 1) = OpPop

\* C17's case: if (false) { 1; 2 } else { 1 } is compiled: the
\* JumpNotTruthy at 1 goes to 14, the Jump at 11 to the Pop at 17.
C17_Witness ==
    /\ IfCompiled
    /\ TheIf = If(BooleanLiteral(FALSE),
                  Block(<<ExpressionStatement(IntegerLiteral(1)),
                          ExpressionStatement(IntegerLiteral(2))>>),
                  Block(<<ExpressionStatement(IntegerLiteral(1))>>))
    /\ OperandOf(compiler.instructions, 1) = 14
    /\ At(compiler.instructions, 11) = OpJump
    /\ OperandOf(compiler.instructions, 11) = 17
    /\ Len(compiler.instructions) = 18

-----------------------------------------------------------------------------
RECURSIVE StatementsCode(_, _)
\* The code of each expression in order, each followed by one Pop, for a
\* compiler that holds the instructions and constants c before them.
StatementsCode(c, statements) ==
    IF statements = <<>> THEN <<>>
    ELSE LET code == ExpressionCode(c, Head(statements).expression) \o <<OpPop>>
             after == compile(c, Head(statements).expression).c
         IN  code \o StatementsCode(
                         [after EXCEPT !.instructions = c.instructions \o code],
                         Tail(statements))

\* C18: the stream compiled for a program of expression statements is the
\* code of each expression, in source order, each followed by exactly one Pop.
C18_ExpressionStatements ==
    (origin = "source" /\ pc # "compile" /\ compile_result.tag = "Ok") =>
        compiler.instructions = StatementsCode(NewCompiler, program)

\* C18's case: !true; 2 is compiled to True, Bang, Pop, Constant 0, Pop.
C18_Witness ==
    /\ origin = "source" /\ pc # "compile" /\ compile_result.tag = "Ok"
    /\ program = <<ExpressionStatement(Prefix("!", BooleanLiteral(TRUE))),
                   ExpressionStatement(IntegerLiteral(2))>>
    /\ compiler.instructions =
          make(OpTrue, <<>>) \o make(OpBang, <<>>) \o make(OpPop, <<>>)
              \o make(OpConstant, <<0>>) \o make(OpPop, <<>>)

-----------------------------------------------------------------------------
RECURSIVE LiteralsCompiled(_)
RECURSIVE LiteralsOfStatements(_)
\* The integer literals of a node as Integers, in the order compile reaches
\* them: for a < b the right operand first.
LiteralsCompiled(node) ==
    CASE node.node = "IntegerLiteral" -> <<Integer(node.value)>>
      [] node.node = "Prefix" -> LiteralsCompiled(node.right)
      [] node.node = "Infix" ->
           IF node.token = "<"
           THEN LiteralsCompiled(node.right) \o LiteralsCompiled(node.left)
           ELSE LiteralsCompiled(node.left) \o LiteralsCompiled(node.right)
      [] node.node = "If" ->
           LiteralsCompiled(node.condition) \o LiteralsCompiled(node.consequence)
               \o LiteralsCompiled(node.alternative)
      [] node.node = "Block" -> LiteralsOfStatements(node.statements)
      [] node.node = "Expression" -> LiteralsCompiled(node.expression)
      [] OTHER -> <<>>

LiteralsOfStatements(statements) ==
    IF statements = <<>> THEN <<>>
    ELSE LiteralsCompiled(Head(statements)) \o LiteralsOfStatements(Tail(statements))

RECURSIVE ConstantOperandsFrom(_, _)
\* The operands of the Constant instructions of a stream, in stream order.
ConstantOperandsFrom(ins, i) ==
    IF i >= Len(ins) THEN <<>>
    ELSE IF At(ins, i) = OpConstant
         THEN <<OperandOf(ins, i)>> \o ConstantOperandsFrom(ins, i + 3)
         ELSE ConstantOperandsFrom(ins,
                  i + 1 + (IF OperandWidths(At(ins, i)) = <<2>> THEN 2 ELSE 0))

\* C19: the constants pool of a compiled program lists its integer literals
\* in the order they were compiled, equal values included each time, and the
\* k-th Constant instruction of the stream has the index k of its entry.
C19_ConstantsPool ==
    (origin = "source" /\ pc # "compile" /\ compile_result.tag = "Ok") =>
        /\ compiler.constants = LiteralsOfStatements(program)
        /\ ConstantOperandsFrom(compiler.instructions, 0)
             = [k \in 1 .. Len(compiler.constants) |-> k - 1]

\* C19's case: 1 == 1 is compiled: the pool holds Integer(1) twice and the
\* two Constant instructions have the indices 0 and 1.
C19_Witness ==
    /\ origin = "source" /\ pc # "compile" /\ compile_result.tag = "Ok"
    /\ program = <<ExpressionStatement(
                     Infix("==", IntegerLiteral(1), IntegerLiteral(1)))>>
    /\ compiler.constants = <<Integer(1), Integer(1)>>
    /\ compiler.instructions =
          make(OpConstant, <<0>>) \o make(OpConstant, <<1>>)
              \o make(OpEqual, <<>>) \o make(OpPop, <<>>)

-----------------------------------------------------------------------------
\* The program is one expression statement, a prefix expression, and compile
\* has returned.
PrefixCompiled ==
    /\ origin = "source" /\ pc # "compile"
    /\ Len(program) = 1
    /\ program[1].node = "Expression"
    /\ program[1].expression.node = "Prefix"

\* C20: for a prefix expression whose operand compiles, compile emits the
\* operand's code and then Bang for the token ! or Minus for the token -;
\* for any other token it returns Err.
C20_PrefixExpression ==
    PrefixCompiled =>
        LET token == program[1].expression.token
            operand == ExpressionCode(NewCompiler, program[1].expression.right)
        IN  IF token \in {"!", "-"}
                  /\ compile(NewCompiler, program[1].expression.right).res.tag = "Ok"
            THEN /\ compile_result.tag = "Ok"
                 /\ compiler.instructions
                      = operand \o <<IF token = "!" THEN OpBang ELSE OpMinus>>
                                \o <<OpPop>>
            ELSE compile_result.tag = "Err"

\* C20's case: the prefix expression + 1 is handed to compile: it returns
\* the error, after the code of the operand.
C20_Witness ==
    /\ PrefixCompiled
    /\ program[1].expression = Prefix("+", IntegerLiteral(1))
    /\ compile_result.tag = "Err"
    /\ pc = "done"
    /\ compiler.instructions = make(OpConstant, <<0>>)

-----------------------------------------------------------------------------
\* C21: for a program whose statement is one compile has no code for (Let,
\* Return, identifier, string, function, call, array, index, hash), compile
\* returns Err with a "not yet supported" message.
C21_UnimplementedConstructs ==
    (/\ origin = "source" /\ pc # "compile"
     /\ program # <<>>
     /\ program[Len(program)] \in UnimplementedStatements) =>
        /\ compile_result.tag = "Err"
        /\ compile_result.msg = "not yet supported"

\* C22: for an infix expression whose token is none of + - * / < > == !=
\* compile returns Err.
C22_UnsupportedInfix ==
    (/\ origin = "source" /\ pc # "compile"
     /\ Len(program) = 1
     /\ program[1].node = "Expression"
     /\ program[1].expression \in UnsupportedInfix) =>
        compile_result.tag = "Err"

\* C23: when compile returns Err the compiler holds nothing the failed call
\* emitted: its instructions and constants are those of before the call,
\* which are those of the new compiler.
C23_NoPartialState ==
    (origin = "source" /\ pc = "done" /\ compile_result.tag = "Err") =>
        /\ compiler.instructions = NewCompiler.instructions
        /\ compiler.constants = NewCompiler.constants

\* C24: running a compiled program never reaches a GreaterThan whose two
\* operands are both Booleans.
C24_NoBooleanGreaterThan ==
    ~(/\ origin = "source"
      /\ Dispatching(OpGreaterThan)
      /\ sp >= 2
      /\ Below.kind = "Boolean" /\ Top.kind = "Boolean")

\* C25: a byte under ip that is no opcode makes run return Err with the
\* stack unchanged; a byte that is an opcode, Jump and JumpNotTruthy
\* included, is converted and its handler runs, so run does not end in the
\* panic of the arm for opcodes without a handler.
C25_OpcodeConversion ==
    [][(pc = "run" /\ ip < Len(instructions)) =>
          IF At(instructions, ip) \in OpCodes
          THEN /\ TryIntoOpCode(At(instructions, ip)) = [res |-> Ok, op |-> At(instructions, ip)]
               /\ run_result' # Panic("not yet implemented")
          ELSE /\ pc' = "done" /\ run_result'.tag = "Err"
               /\ stack' = stack /\ sp' = sp]_vars

-----------------------------------------------------------------------------
\* The index a Constant instruction at ip names: the two bytes after the
\* opcode, the first one the high byte.
ConstantIndex == At(instructions, ip + 1) * 256 + At(instructions, ip + 2)

C27_LastPopped ==
    [][/\ (Dispatching(OpPop) /\ sp \in 1 .. STACK_SIZE) =>
              /\ sp' = sp - 1
              /\ stack' = stack
              /\ last_popped_stack_elem' = [res |-> Ok, val |-> Top]
       /\ pc' = "run" /\ pc = "vm_new" =>
              /\ sp' = 0
              /\ last_popped_stack_elem' = [res |-> Ok, val |-> Null]]_vars

\* C27's case: 2 has been pushed and popped; last_popped_stack_elem returns
\* Integer(2) from the slot 0, above the stack pointer.
C27_Witness ==
    /\ origin = "source" /\ pc = "done" /\ run_result.tag = "Ok"
    /\ program = <<ExpressionStatement(IntegerLiteral(2))>>
    /\ sp = 0
    /\ stack = <<Integer(2)>>
    /\ last_popped_stack_elem = [res |-> Ok, val |-> Integer(2)]

\* C28: stack_top returns the slot below the stack pointer when sp > 0, and
\* no value, without failing, when sp = 0.
C28_StackTop ==
    (pc \in {"run", "done"} /\ sp <= STACK_SIZE) =>
        IF sp > 0 THEN stack_top = Some(StackGet(stack, sp - 1))
        ELSE stack_top = None

\* C29: encoding round trip: for every emitted opcode and operand tuple, the
\* first byte of make(op, ops) converts back to op, the bytes after it read
\* big-endian per the operand widths give back ops, the encoding is
\* 1 + sum of widths bytes long, and it is what emit put at its position.
C29_EncodingRoundTrip ==
    origin = "emit" =>
        \A i \in 1 .. Len(program) :
            LET r == program[i]
                enc == make(r.op, r.operands)
            IN  /\ TryIntoOpCode(enc[1]) = [res |-> Ok, op |-> r.op]
                /\ read_operands(r.op, Tail(enc)) = r.operands
                /\ Len(enc) = 1 + WidthsSum(r.op)
                /\ SubSeq(compiler.instructions, r.pos + 1, r.pos + Len(enc))
                      = enc

\* C29's case: Constant 258, Jump 65535 and Add have been emitted.
C29_Witness ==
    /\ origin = "emit"
    /\ program = <<EmitCall(OpConstant, <<258>>, 0),
                   EmitCall(OpJump, <<65535>>, 3),
                   EmitCall(OpAdd, <<>>, 6)>>
    /\ compiler.instructions = <<OpConstant, 1, 2, OpJump, 255, 255, OpAdd>>

\* The byte length of the first n emitted instructions.
RECURSIVE EmittedLength(_)
EmittedLength(n) ==
    IF n = 0 THEN 0
    ELSE EmittedLength(n - 1) + 1 + WidthsSum(program[n].op)

\* The number a sequence of decimal digits writes.
RECURSIVE DigitsValue(_)
DigitsValue(d) ==
    IF d = <<>> THEN 0
    ELSE 10 * DigitsValue(SubSeq(d, 1, Len(d) - 1)) + d[Len(d)]

\* C30: the disassembly of the emitted instructions has one line per
\* instruction, and each line starts with a 4-digit zero-padded offset equal
\* to the byte length of the instructions before it.
C30_Disassembly ==
    (origin = "emit" /\ pc = "printed") =>
        /\ Len(Disassembly) = Len(program)
        /\ \A i \in 1 .. Len(program) :
              /\ Len(Disassembly[i].offset) = 4
              /\ DigitsValue(Disassembly[i].offset) = EmittedLength(i - 1)
              /\ Disassembly[i].name = OpName(program[i].op)
              /\ Disassembly[i].operands = program[i].operands

\* C30's case: the three lines 0000 OpConstant 65535, 0003 OpPop,
\* 0004 OpJumpNotTruthy 258.
C30_Witness ==
    /\ origin = "emit" /\ pc = "printed"
    /\ Disassembly =
          <<[offset |-> <<0, 0, 0, 0>>, name |-> "OpConstant",
             operands |-> <<65535>>],
            [offset |-> <<0, 0, 0, 3>>, name |-> "OpPop", operands |-> <<>>],
            [offset |-> <<0, 0, 0, 4>>, name |-> "OpJumpNotTruthy",
             operands |-> <<258>>]>>

\* How tightly an infix operator binds, as the claim orders them.
BindingStrength(token) ==
    CASE token.type \in {"Eq", "Ne"} -> 1
      [] token.type \in {"Lt", "Gt"} -> 2
      [] token.type \in {"Plus", "Minus"} -> 3
      [] token.type \in {"Asterisk", "Slash"} -> 4

\* The tokens of an expression read from left to right.
RECURSIVE TokensOf(_)
TokensOf(e) ==
    CASE e.node = "Identifier" -> <<Token("Ident", e.name)>>
      [] e.node = "IntegerLiteral" -> <<Token("Int", DecimalStrings[e.value])>>
      [] e.node = "Prefix" -> <<e.token>> \o TokensOf(e.right)
      [] e.node = "Infix" -> TokensOf(e.left) \o <<e.token>> \o TokensOf(e.right)

\* An expression grouped by precedence, equal precedence to the left: the
\* operand of a prefix operator is no infix expression, the right side of an
\* infix expression binds strictly tighter than it, the left side at least
\* as tightly.
RECURSIVE GroupedByPrecedence(_)
GroupedByPrecedence(e) ==
    CASE e.node = "Prefix" ->
            e.right.node # "Infix" /\ GroupedByPrecedence(e.right)
      [] e.node = "Infix" ->
            /\ e.left.node = "Infix" =>
                  BindingStrength(e.left.token) >= BindingStrength(e.token)
            /\ e.right.node = "Infix" =>
                  BindingStrength(e.right.token) > BindingStrength(e.token)
            /\ GroupedByPrecedence(e.left)
            /\ GroupedByPrecedence(e.right)
      [] OTHER -> TRUE

\* The tokens from the i-th on are a chain of operands joined by infix
\* operators, each operand with any number of prefix operators before it;
\* operand tells whether an operand is due.
RECURSIVE OperatorChain(_, _, _)
OperatorChain(ts, i, operand) ==
    IF i > Len(ts) THEN ~operand
    ELSE IF operand
         THEN CASE ts[i].type \in {"Minus", "Bang"} -> OperatorChain(ts, i + 1, TRUE)
                [] ts[i].type = "Ident" -> OperatorChain(ts, i + 1, FALSE)
                [] ts[i].type = "Int" ->
                      /\ \E k \in DOMAIN DecimalStrings :
                            DecimalStrings[k] = ts[i].literal
                      /\ OperatorChain(ts, i + 1, FALSE)
                [] OTHER -> FALSE
         ELSE ts[i] \in InfixOperators /\ OperatorChain(ts, i + 1, TRUE)

StackEffect(op) ==
    CASE op \in {OpConstant, OpTrue, OpFalse} -> 1
      [] op \in {OpPop, OpAdd, OpSub, OpMul, OpDiv, OpEqual, OpNotEqual,
                 OpGreaterThan, OpJumpNotTruthy} -> -1
      [] OTHER -> 0

\* The changes of the stack pointer over the execution paths of ins that
\* start at byte offset i with the change d so far and run off its end; a
\* JumpNotTruthy is followed both ways.
RECURSIVE PathEffects(_, _, _)
PathEffects(ins, i, d) ==
    IF i >= Len(ins) THEN {d}
    ELSE LET op == At(ins, i)
             next == i + 1 + WidthsSum(op)
             target == OperandOf(ins, i)
         IN  CASE op = OpJump ->
                    IF target > i THEN PathEffects(ins, target, d) ELSE {}
               [] op = OpJumpNotTruthy ->
                    PathEffects(ins, next, d - 1)
                        \cup (IF target > i THEN PathEffects(ins, target, d - 1)
                              ELSE {})
               [] OTHER -> PathEffects(ins, next, d + StackEffect(op))

\* C32: the code compiled for the expression of an expression statement - the
\* byte code without the statement's Pop - moves the stack pointer up by
\* exactly one on every execution path.
C32_ExpressionLeavesOneValue ==
    (/\ origin = "source" /\ pc # "compile" /\ compile_result = Ok
     /\ Len(program) = 1 /\ program[1].node = "Expression") =>
        PathEffects(SliceTo(byte_code.instructions,
                            Len(byte_code.instructions) - 1), 0, 0) = {1}

\* C33: in compiled byte code every jump goes forward, every step of run
\* that continues moves ip up, and run ends with Ok or Err.
C33_ForwardJumpsTermination ==
    [][(origin = "source" /\ pc = "run") =>
          /\ \A s \in InstructionStarts(instructions) :
                At(instructions, s) \in {OpJump, OpJumpNotTruthy} =>
                    OperandOf(instructions, s) > s
          /\ pc' = "run" => ip' > ip
          /\ pc' = "done" => run_result'.tag \in {"Ok", "Err"}]_vars

\* C34: while run executes compiled byte code, ip at the start of every
\* dispatch is the offset of the first byte of an instruction, and when run
\* has returned Ok ip is the length of the instruction stream.
C34_IpOnInstructionStart ==
    origin = "source" =>
        /\ (pc = "run" /\ ip < Len(instructions)) =>
              ip \in InstructionStarts(instructions)
        /\ (pc = "done" /\ run_result = Ok) => ip = Len(instructions)

\* C34's case: 2; 2 has run: ip went 0, 3, 4, 7 and run returned Ok at 8.
C34_Witness ==
    /\ origin = "source" /\ pc = "done" /\ run_result = Ok
    /\ instructions = <<OpConstant, 0, 0, OpPop, OpConstant, 0, 1, OpPop>>
    /\ ip = 8

\* C35: change_operand(pos, v) at a Jump or JumpNotTruthy leaves the length
\* of the stream, the opcode at pos, the bytes outside [pos, pos + 3) and the
\* constants as they were and writes v big-endian into the two operand
\* bytes; with pos outside the stream, or when the instruction encoded anew
\* does not fit from pos on, it returns Err and leaves the stream unchanged.
C35_ChangeOperandFrame ==
    [][(pc = "emit" /\ pc' = "patched") =>
          LET pos == program'[Len(program')].pos
              v == program'[Len(program')].operand
              old == compiler.instructions
              new == compiler'.instructions
          IN  IF pos >= Len(old)
              THEN compile_result'.tag = "Err" /\ new = old
              ELSE IF At(old, pos) \notin OpCodes THEN TRUE
              ELSE IF pos + 1 + WidthsSum(At(old, pos)) > Len(old)
              THEN compile_result'.tag = "Err" /\ new = old
              ELSE At(old, pos) \in {OpJump, OpJumpNotTruthy} =>
                      /\ compile_result' = Ok
                      /\ Len(new) = Len(old)
                      /\ At(new, pos) = At(old, pos)
                      /\ \A i \in 0 .. Len(old) - 1 :
                            (i < pos \/ i >= pos + 3) => At(new, i) = At(old, i)
                      /\ At(new, pos + 1) = v \div 256
                      /\ At(new, pos + 2) = v % 256
                      /\ compiler'.constants = compiler.constants]_vars

\* C36: the removal of the trailing Pop, made when the last emitted opcode
\* is Pop, cuts the stream at that Pop - one byte shorter, the bytes before
\* it unchanged - sets last_instruction to what prev_instruction was and
\* leaves the constants unchanged.
C36_RemoveLastPopFrame ==
    [][(pc = "emit" /\ program' = Append(program, RemoveCall)) =>
          /\ compile_result' = Ok
          /\ At(compiler.instructions, Len(compiler.instructions) - 1) = OpPop
          /\ compiler'.instructions =
                SliceTo(compiler.instructions, Len(compiler.instructions) - 1)
          /\ compiler'.last_instruction = compiler.prev_instruction
          /\ compiler'.prev_instruction = compiler.prev_instruction
          /\ compiler'.constants = compiler.constants]_vars

\* C36's case: Constant 0, True and Pop were emitted and the Pop removed:
\* the stream is Constant 0, True, last_instruction is the True at 3 and
\* the constant is still in the pool.
C36_Witness ==
    /\ origin = "emit" /\ pc = "emit"
    /\ Len(program) = 4 /\ program[4] = RemoveCall
    /\ compiler.instructions = <<OpConstant, 0, 0, OpTrue>>
    /\ compiler.last_instruction = EmittedInstruction(OpTrue, 3)
    /\ compiler.constants = <<Integer(1)>>

\* The offset of the last instruction of a stream of whole instructions.
LastStart(ins) ==
    CHOOSE s \in InstructionStarts(ins) : \A t \in InstructionStarts(ins) : t <= s

\* last_instruction describes the final instruction of the compiler's stream.
LastDescribesEnd(c) ==
    c.instructions # <<>> =>
        /\ c.last_instruction.is_some
        /\ c.last_instruction.position = LastStart(c.instructions)
        /\ c.last_instruction.op_code = At(c.instructions, LastStart(c.instructions))

\* C39: after every emit and every removal of a trailing Pop that compile
\* makes, last_instruction describes the final instruction of a non-empty
\* stream, and an emit sets prev_instruction to the former last_instruction.
C39_LastInstructionTracking ==
    [][(pc = "emit" /\ pc' = "emit") =>
          /\ LastDescribesEnd(compiler')
          /\ program'[Len(program')].node = "Emit" =>
                /\ compiler'.prev_instruction = compiler.last_instruction
                /\ compiler'.last_instruction =
                      EmittedInstruction(program'[Len(program')].op,
                                         Len(compiler.instructions))]_vars

\* C39's case: True, Pop, removal, Pop, removal: after the second removal
\* last_instruction is again the True at 0, the only instruction left.
C39_Witness ==
    /\ origin = "emit" /\ pc = "emit"
    /\ Len(program) = 5 /\ program[3] = RemoveCall /\ program[5] = RemoveCall
    /\ compiler.instructions = <<OpTrue>>
    /\ compiler.last_instruction = EmittedInstruction(OpTrue, 0)

\* C37: from Vm::new on, through every step of run and after run has
\* returned, the VM's instructions and constants are those of the ByteCode
\* it was created from.
C37_ByteCodeReadOnly ==
    (origin \in {"source", "raw"} /\ (pc = "run" \/ run_result # NotReturned)) =>
        /\ instructions = byte_code.instructions
        /\ constants = byte_code.constants

\* C37's case: run has returned Ok on the byte code of 1 + 2; the stack was
\* written, and instructions and constants are as they were compiled.
C37_Witness ==
    /\ origin = "source" /\ pc = "done" /\ run_result = Ok
    /\ byte_code = [instructions |-> <<OpConstant, 0, 0, OpConstant, 0, 1,
                                       OpAdd, OpPop>>,
                    constants |-> <<Integer(1), Integer(2)>>]
    /\ instructions = byte_code.instructions
    /\ constants = byte_code.constants
    /\ stack = <<Integer(3), Integer(2)>>

\* C38: Add, Sub, Mul on two Integers and Minus on an Integer always
\* complete: run pushes an Integer and goes on, also when the mathematical
\* result is outside the signed range.
C38_ArithmeticCompletes ==
    [][/\ \A op \in {OpAdd, OpSub, OpMul} :
             (/\ Dispatching(op) /\ sp \in 2 .. STACK_SIZE
              /\ Below.kind = "Integer" /\ Top.kind = "Integer") =>
                 /\ pc' = "run" /\ sp' = sp - 1
                 /\ StackGet(stack', sp' - 1).kind = "Integer"
       /\ (Dispatching(OpMinus) /\ sp \in 1 .. STACK_SIZE
           /\ Top.kind = "Integer") =>
                 /\ pc' = "run" /\ sp' = sp
                 /\ StackGet(stack', sp' - 1).kind = "Integer"]_vars

=============================================================================
